---- MODULE Spec2Model ----
(***************************************************************************)
(* Path restructuring, route derivation and include rewriting of           *)
(* transpilex.                                                             *)
(*                                                                         *)
(* A Python str is modelled as a sequence of one-character strings, so     *)
(* that split, join, casing, suffix and replace are computed character by  *)
(* character as the library functions compute them.  A pathlib.Path is     *)
(* the sequence of its parts.                                              *)
(***************************************************************************)
EXTENDS Integers, Sequences, FiniteSets, TLC

VARIABLES
    case_style,       \* restructure_and_copy_files: argument case_style
    extension,        \* restructure_and_copy_files: argument extension
    dest_path,        \* restructure_and_copy_files: argument dest_path (parts)
    src_root,         \* _get_restructured_path: argument src_root (parts)
    src_parent,       \* _get_restructured_path: src_file.parent (parts)
    src_file,         \* the file of the current iteration of the rglob loop
    parts,            \* _get_restructured_path: parts
    folder_parts,     \* _get_restructured_path: folder_parts
    file_parts,       \* _get_restructured_path: file_parts
    i,                \* _get_restructured_path: i
    stop_at_no_nest,  \* _get_restructured_path: stop_at_no_nest
    nesting_stopped,  \* _get_restructured_path: nesting_stopped
    iterations,       \* number of completed passes of the while loop
    restructured,     \* value returned by _get_restructured_path (parts)
    dest_file,        \* restructure_and_copy_files: dest_file after casing and suffix
    copied,           \* destination paths written by shutil.copy2
    route_map,        \* restructure_and_copy_files: route_map
    emitter,          \* the converter whose method runs
    params_raw,       \* the params text of a fragment, as handed to the parser
    raw,              \* _parse_include_params: raw
    params,           \* value returned by _parse_include_params
    params_type,      \* the Python type of that value
    page,             \* the text handed to the include rewriter
    content,          \* _replace_all_includes_with_*: content
    fragments,        \* _replace_all_includes_with_*: fragments
    frag_done,        \* number of fragments the second loop has handled
    cli_args,         \* main: cli_args (framework, frontend_pipeline, the rest)
    project_config,   \* main: project_config
    converter,        \* the converter class whose create_project runs
    steps,            \* the steps of create_project that have run
    all_files,        \* _convert: the files its rglob yields
    handled,          \* the files _convert has visited, with their log lines
    exit_code,        \* exit status of the process, -1 while it runs
    visited,          \* restructure_and_copy_files: the pages rglob has yielded
    partials_dir,     \* the file names in the partials folder
    listing,          \* _normalize_partials_folder: list(rglob) still to visit
    log,              \* lines written through Log
    pc                \* position of the run

restructure_vars ==
    <<case_style, extension, dest_path, src_root, src_parent, src_file, parts,
      folder_parts, file_parts, i, stop_at_no_nest, nesting_stopped, iterations,
      restructured, dest_file, copied, route_map>>

rewrite_vars ==
    <<emitter, params_raw, raw, params, params_type, page, content, fragments,
      frag_done>>

run_vars ==
    <<cli_args, project_config, converter, steps, all_files, handled, exit_code>>

folder_vars == <<visited, partials_dir, listing>>

vars == <<restructure_vars, rewrite_vars, run_vars, folder_vars, log, pc>>

----------------------------------------------------------------------------
(* str and pathlib primitives *)

LowerLetters ==
    <<"a","b","c","d","e","f","g","h","i","j","k","l","m",
      "n","o","p","q","r","s","t","u","v","w","x","y","z">>

UpperLetters ==
    <<"A","B","C","D","E","F","G","H","I","J","K","L","M",
      "N","O","P","Q","R","S","T","U","V","W","X","Y","Z">>

LetterRange == 1..Len(LowerLetters)

UpperToLower ==
    [c \in {UpperLetters[k] : k \in LetterRange} |->
        LowerLetters[CHOOSE k \in LetterRange : UpperLetters[k] = c]]

LowerToUpper ==
    [c \in {LowerLetters[k] : k \in LetterRange} |->
        UpperLetters[CHOOSE k \in LetterRange : LowerLetters[k] = c]]

\* str.lower() on one character
LowerChar(c) == IF c \in DOMAIN UpperToLower THEN UpperToLower[c] ELSE c

\* str.upper() on one character
UpperChar(c) == IF c \in DOMAIN LowerToUpper THEN LowerToUpper[c] ELSE c

\* str.lower()
StrLower(s) == [k \in 1..Len(s) |-> LowerChar(s[k])]

\* str.capitalize(): first character upper-cased, the rest lower-cased
StrCapitalize(s) ==
    [k \in 1..Len(s) |-> IF k = 1 THEN UpperChar(s[k]) ELSE LowerChar(s[k])]

\* s[a:] of Python, a counted from 1 here
Drop(s, a) == SubSeq(s, a, Len(s))

\* s.startswith(p)
StartsWith(s, p) == Len(p) <= Len(s) /\ SubSeq(s, 1, Len(p)) = p

\* s.endswith(p)
EndsWith(s, p) == Len(p) <= Len(s) /\ SubSeq(s, Len(s) - Len(p) + 1, Len(s)) = p

\* s.removesuffix(p)
RemoveSuffix(s, p) ==
    IF Len(p) > 0 /\ EndsWith(s, p) THEN SubSeq(s, 1, Len(s) - Len(p)) ELSE s

\* s.lstrip(chars)
RECURSIVE LStrip(_, _)
LStrip(s, chars) ==
    IF Len(s) > 0 /\ s[1] \in chars THEN LStrip(Tail(s), chars) ELSE s

\* s.find(p): the first index at which p occurs in s, 0 when it does not
FindFirst(s, p) ==
    LET hits == {k \in 1..(Len(s) - Len(p) + 1) : SubSeq(s, k, k + Len(p) - 1) = p}
    IN  IF hits = {} THEN 0 ELSE CHOOSE k \in hits : \A h \in hits : k <= h

\* s.rfind(c) for one character c, 0 when it does not occur
RFindChar(s, c) ==
    LET hits == {k \in 1..Len(s) : s[k] = c}
    IN  IF hits = {} THEN 0 ELSE CHOOSE k \in hits : \A h \in hits : k >= h

\* s.replace(old, new, 1)
ReplaceFirst(s, old, new) ==
    LET k == FindFirst(s, old)
    IN  IF k = 0 \/ Len(old) = 0 THEN (IF Len(old) = 0 THEN new \o s ELSE s)
        ELSE SubSeq(s, 1, k - 1) \o new \o Drop(s, k + Len(old))

\* s.replace(old, new) for a one-character old
ReplaceChar(s, old, new) == [k \in 1..Len(s) |-> IF s[k] = old THEN new ELSE s[k]]

\* s.split(c) for one character c
RECURSIVE SplitFrom(_, _, _, _)
SplitFrom(s, c, k, cur) ==
    IF k > Len(s) THEN <<cur>>
    ELSE IF s[k] = c THEN <<cur>> \o SplitFrom(s, c, k + 1, <<>>)
    ELSE SplitFrom(s, c, k + 1, Append(cur, s[k]))

StrSplit(s, c) == SplitFrom(s, c, 1, <<>>)

\* sep.join(words)
RECURSIVE StrJoin(_, _)
StrJoin(words, sep) ==
    IF Len(words) = 0 THEN <<>>
    ELSE IF Len(words) = 1 THEN words[1]
    ELSE words[1] \o sep \o StrJoin(Tail(words), sep)

Hyphen == <<"-">>
Slash == <<"/">>

\* os.path.splitext(name) for a name without directory separators: the
\* extension starts at the last dot unless only dots precede it
SplitExt(name) ==
    LET d == RFindChar(name, ".")
    IN  IF d > 0 /\ \E k \in 1..(d - 1) : name[k] # "."
        THEN <<SubSeq(name, 1, d - 1), Drop(name, d)>>
        ELSE <<name, <<>>>>

\* PurePath.suffix of a final component
PathSuffix(name) ==
    LET d == RFindChar(name, ".")
    IN  IF 1 < d /\ d < Len(name) THEN Drop(name, d) ELSE <<>>

\* PurePath.with_suffix(suffix), applied to the last part
WithSuffix(path, suffix) ==
    LET name == path[Len(path)]
        old  == PathSuffix(name)
        new  == SubSeq(name, 1, Len(name) - Len(old)) \o suffix
    IN  SubSeq(path, 1, Len(path) - 1) \o <<new>>

\* PurePath.as_posix() / str(path): an anchored path starts with the part "/"
AsPosix(path) ==
    IF Len(path) > 0 /\ path[1] = Slash
    THEN Slash \o StrJoin(Tail(path), Slash)
    ELSE StrJoin(path, Slash)

\* Path(s) for a relative string s: the non-empty components between slashes
ParsePath(s) ==
    LET comps == StrSplit(s, "/")
    IN  SelectSeq(comps, LAMBDA c : c # <<>> /\ c # <<".">>)

\* path.relative_to(root) succeeds exactly when root's parts are a prefix
IsRelativeTo(path, root) ==
    Len(root) <= Len(path) /\ SubSeq(path, 1, Len(root)) = root

RelativeTo(path, root) == Drop(path, Len(root) + 1)

----------------------------------------------------------------------------
(* transpilex/utils/casing.py *)

Whitespace == {" ", "\t", "\n", "\r", "\f"}
CaseSeparators == Whitespace \cup {"_", "-"}

\* text.strip()
RECURSIVE RStrip(_, _)
RStrip(s, chars) ==
    IF Len(s) > 0 /\ s[Len(s)] \in chars
    THEN RStrip(SubSeq(s, 1, Len(s) - 1), chars) ELSE s

StrStrip(s) == RStrip(LStrip(s, Whitespace), Whitespace)

\* re.split(r'[\s_\-]+', text): a run of separators ends the current word
RECURSIVE CaseSplitFrom(_, _, _)
CaseSplitFrom(s, k, cur) ==
    IF k > Len(s) THEN <<cur>>
    ELSE IF s[k] \in CaseSeparators
         THEN IF k > 1 /\ s[k - 1] \in CaseSeparators
              THEN CaseSplitFrom(s, k + 1, cur)
              ELSE <<cur>> \o CaseSplitFrom(s, k + 1, <<>>)
         ELSE CaseSplitFrom(s, k + 1, Append(cur, s[k]))

CaseWords(text) == CaseSplitFrom(StrStrip(text), 1, <<>>)

LowerWords(words) == [k \in 1..Len(words) |-> StrLower(words[k])]
CapitalizeWords(words) == [k \in 1..Len(words) |-> StrCapitalize(words[k])]

apply_casing(text, style) ==
    LET words == CaseWords(text)
    IN  CASE style = "kebab"  -> StrJoin(LowerWords(words), Hyphen)
          [] style = "snake"  -> StrJoin(LowerWords(words), <<"_">>)
          [] style = "pascal" -> StrJoin(CapitalizeWords(words), <<>>)
          [] style = "camel"  ->
                StrLower(words[1]) \o StrJoin(CapitalizeWords(Tail(words)), <<>>)
          [] OTHER -> text

----------------------------------------------------------------------------
(* transpilex/config/base.py *)

FOLDERS ==
    { <<"d","a","s","h","b","o","a","r","d">>  \* dashboard
    , <<"d","a","s","h","b","o","a","r","d","s">>  \* dashboards
    , <<"a","p","p","s">>  \* apps
    , <<"e","c","o","m","m","e","r","c","e">>  \* ecommerce
    , <<"h","r">>  \* hr
    , <<"p","r","o","j","e","c","t">>  \* project
    , <<"p","r","o","m","o">>  \* promo
    , <<"t","a","s","k">>  \* task
    , <<"u","s","e","r","s">>  \* users
    , <<"p","r","o","j","e","c","t","s">>  \* projects
    , <<"b","l","o","g">>  \* blog
    , <<"t","i","c","k","e","t">>  \* ticket
    , <<"f","o","r","u","m">>  \* forum
    , <<"c","r","m">>  \* crm
    , <<"e","m","a","i","l">>  \* email
    , <<"f","i","n","a","n","c","e">>  \* finance
    , <<"h","o","s","p","i","t","a","l">>  \* hospital
    , <<"h","r","m">>  \* hrm
    , <<"i","n","v","o","i","c","e">>  \* invoice
    , <<"p","o","s">>  \* pos
    , <<"p","a","g","e","s">>  \* pages
    , <<"m","i","s","c">>  \* misc
    , <<"p","l","u","g","i","n","s">>  \* plugins
    , <<"a","u","t","h">>  \* auth
    , <<"a","u","t","h","-","2">>  \* auth-2
    , <<"a","u","t","h","-","3">>  \* auth-3
    , <<"a","u","t","h","-","c","a","r","d">>  \* auth-card
    , <<"a","u","t","h","-","s","p","l","i","t">>  \* auth-split
    , <<"a","u","t","h","-","b","a","s","i","c">>  \* auth-basic
    , <<"a","u","t","h","-","c","o","v","e","r">>  \* auth-cover
    , <<"a","u","t","h","-","b","o","x","e","d">>  \* auth-boxed
    , <<"a","u","t","h","-","m","o","d","e","r","n">>  \* auth-modern
    , <<"e","r","r","o","r">>  \* error
    , <<"l","a","y","o","u","t","s">>  \* layouts
    , <<"s","i","d","e","b","a","r">>  \* sidebar
    , <<"t","o","p","b","a","r">>  \* topbar
    , <<"s","i","d","e","n","a","v">>  \* sidenav
    , <<"u","i">>  \* ui
    , <<"b","a","s","e","-","u","i">>  \* base-ui
    , <<"f","o","r","m">>  \* form
    , <<"f","o","r","m","s">>  \* forms
    , <<"c","h","a","r","t">>  \* chart
    , <<"c","h","a","r","t","s">>  \* charts
    , <<"a","p","e","x">>  \* apex
    , <<"e","c","h","a","r","t">>  \* echart
    , <<"c","h","a","r","t","j","s">>  \* chartjs
    , <<"t","a","b","l","e">>  \* table
    , <<"t","a","b","l","e","s">>  \* tables
    , <<"d","a","t","a","t","a","b","l","e","s">>  \* datatables
    , <<"i","c","o","n">>  \* icon
    , <<"i","c","o","n","s">>  \* icons
    , <<"m","a","p">>  \* map
    , <<"m","a","p","s">>  \* maps
    , <<"u","t","i","l","i","t","i","e","s">>  \* utilities
    , <<"n","a","v","i","g","a","t","i","o","n">>  \* navigation
    , <<"l","a","n","d","i","n","g">>  \* landing
    , <<"i","n","v","o","i","c","e","s">>  \* invoices
    , <<"c","o","n","t","a","c","t","s">>  \* contacts
    }

NO_NESTING_FOLDERS ==
    { <<"d","a","s","h","b","o","a","r","d">>  \* dashboard
    , <<"d","a","s","h","b","o","a","r","d","s">>  \* dashboards
    , <<"p","a","g","e","s">>  \* pages
    , <<"m","i","s","c">>  \* misc
    , <<"p","l","u","g","i","n","s">>  \* plugins
    , <<"a","u","t","h">>  \* auth
    , <<"a","u","t","h","-","2">>  \* auth-2
    , <<"a","u","t","h","-","3">>  \* auth-3
    , <<"a","u","t","h","-","c","a","r","d">>  \* auth-card
    , <<"a","u","t","h","-","s","p","l","i","t">>  \* auth-split
    , <<"a","u","t","h","-","b","a","s","i","c">>  \* auth-basic
    , <<"a","u","t","h","-","c","o","v","e","r">>  \* auth-cover
    , <<"a","u","t","h","-","b","o","x","e","d">>  \* auth-boxed
    , <<"a","u","t","h","-","m","o","d","e","r","n">>  \* auth-modern
    , <<"e","r","r","o","r">>  \* error
    , <<"u","i">>  \* ui
    , <<"b","a","s","e","-","u","i">>  \* base-ui
    , <<"f","o","r","m">>  \* form
    , <<"f","o","r","m","s">>  \* forms
    , <<"i","c","o","n">>  \* icon
    , <<"i","c","o","n","s">>  \* icons
    , <<"m","a","p">>  \* map
    , <<"m","a","p","s">>  \* maps
    , <<"l","a","n","d","i","n","g">>  \* landing
    }

\* every keyword fw of FOLDERS with fw_tokens = fw.split('-')
FolderKeywords == {[fw |-> fw, fw_tokens |-> StrSplit(fw, "-")] : fw \in FOLDERS}

----------------------------------------------------------------------------
(* Inputs: the pages tree and the arguments of restructure_and_copy_files *)

\* tokens of a page name
MaxTokens == 3
\* pairs of a parameter blob
MaxPairs == 2
\* include directives of a page
MaxIncludes == 2

T_apps  == <<"a","p","p","s">>
T_hr    == <<"h","r">>
T_ui    == <<"u","i">>
T_auth  == <<"a","u","t","h">>
T_cover == <<"c","o","v","e","r">>
T_index == <<"i","n","d","e","x">>

\* tokens a page name is built from: nesting keywords (apps, hr), no-nest
\* keywords (ui, auth), the tail of a two-token keyword (auth-cover) and
\* words that are no keyword (cover, index)
Tokens == {T_apps, T_hr, T_ui, T_auth, T_cover, T_index}

HtmlExt == <<".","h","t","m","l">>

TokenRuns == UNION {[1..n -> Tokens] : n \in 1..MaxTokens}

\* the names rglob("*.html") yields
SourceNames == {StrJoin(ts, Hyphen) \o HtmlExt : ts \in TokenRuns}

\* relative_path.parent: the pages root itself or a sub-directory of it
ParentDirs == {<<>>, << <<"p">> >>}

\* LARAVEL_EXTENSION, CORE_EXTENSION, ROR_EXTENSION
Ext_blade == <<".","b","l","a","d","e",".","p","h","p">>
Ext_cshtml == <<".","c","s","h","t","m","l">>
Ext_erb == <<".","h","t","m","l",".","e","r","b">>

\* the (case_style, extension) arguments the emitters pass: Laravel
\* (default case_style), Core and Rails
EmitterCalls ==
    { [case_style |-> "kebab",  extension |-> Ext_blade]
    , [case_style |-> "pascal", extension |-> Ext_cshtml]
    , [case_style |-> "snake",  extension |-> Ext_erb] }

\* destination roots: project_root_path / <views folder>, below a
\* user-chosen directory
Dest_plain == <<Slash, <<"w">>, <<"v">>>>
Dest_named == <<Slash, <<"M","_","w">>, <<"v">>>>
DestPaths == {Dest_plain, Dest_named}

\* config.pages_path: the source root the emitters hand over
PagesPath == <<Slash, <<"s">>>>

NoFile == [parent |-> <<>>, name |-> <<>>]

----------------------------------------------------------------------------
(* transpilex/utils/restructure.py: _get_restructured_path *)

\* parts[i:i + n] with Python's 0-based, end-truncating slice
Slice(s, from, n) ==
    SubSeq(s, from + 1, IF from + n <= Len(s) THEN from + n ELSE Len(s))

MatchesAt_Anywhere(ps, at) ==
    {k \in FolderKeywords :
        \E from \in at..(Len(ps) - 1) :
            /\ k.fw_tokens[1] = ps[from + 1]
            /\ Slice(ps, from, Len(k.fw_tokens)) = k.fw_tokens}

\* the keywords whose tokens equal the tokens at the cursor
MatchesAt(ps, at) ==
    {k \in FolderKeywords : /\ k.fw_tokens[1] = ps[at + 1]
                            /\ Slice(ps, at, Len(k.fw_tokens)) = k.fw_tokens}

FirstMatches_Shortest(ps, at) ==
    LET matching == MatchesAt(ps, at)
    IN  {k \in matching :
            \A other \in matching : Len(k.fw_tokens) <= Len(other.fw_tokens)}

FirstMatches_Unsorted(ps, at) == MatchesAt(ps, at)

\* the keywords that can be the first to match at the cursor: FOLDERS is a
\* set, iterated in any order, and sorted() is stable and orders by token
\* count only, so any matching keyword with the most tokens can come first
FirstMatches(ps, at) ==
    LET matching == MatchesAt(ps, at)
    IN  {k \in matching :
            \A other \in matching : Len(k.fw_tokens) >= Len(other.fw_tokens)}

\* line 59: the matched span reaches the end of the tokens
ReachesEnd_Strict(at, n, total) == at + n > total

ReachesEnd_Never(at, n, total) == FALSE

ReachesEnd(at, n, total) == at + n >= total

\* line 71: the keyword stops further nesting
IsNoNest_Never(fw) == FALSE

IsNoNest(fw) == fw \in NO_NESTING_FOLDERS

Remaining_SkipsOne(ps, at) == Drop(ps, at + 2)

\* line 83: parts[i:], the tokens from the cursor on
Remaining(ps, at) == Drop(ps, at + 1)

LoopLeft_OnBreakOnly(next_i, broke) == broke

\* the while loop is left when its condition fails or by the break
LoopLeft(next_i, broke) == broke \/ next_i >= Len(parts)

\* lines 21-39: relative path, stem, tokens and the cleared accumulators
StartFile ==
    /\ pc = "idle"
    /\ \E name \in SourceNames, parent \in ParentDirs :
          /\ src_parent' = src_root \o parent
          /\ src_file' = [parent |-> parent, name |-> name]
          /\ parts' = StrSplit(SplitExt(name)[1], "-")
    /\ folder_parts' = <<>>
    /\ file_parts' = <<>>
    /\ i' = 0
    /\ stop_at_no_nest' = FALSE
    /\ nesting_stopped' = FALSE
    /\ iterations' = 0
    /\ pc' = "scan"
    /\ UNCHANGED folder_vars
    /\ UNCHANGED <<case_style, extension, dest_path, restructured, dest_file,
                   copied, route_map, log>>
    /\ UNCHANGED src_root
    /\ UNCHANGED rewrite_vars
    /\ UNCHANGED run_vars

\* lines 45-48: nesting has stopped, the token is a file part
ScanStopped ==
    /\ pc = "scan" /\ i < Len(parts)
    /\ nesting_stopped
    /\ file_parts' = Append(file_parts, parts[i + 1])
    /\ i' = i + 1
    /\ iterations' = iterations + 1
    /\ pc' = IF LoopLeft(i + 1, FALSE) THEN "exit" ELSE "scan"
    /\ UNCHANGED folder_vars
    /\ UNCHANGED <<case_style, extension, dest_path, src_file, parts,
                   folder_parts, stop_at_no_nest, nesting_stopped,
                   restructured, dest_file, copied, route_map, log>>
    /\ UNCHANGED <<src_root, src_parent>>
    /\ UNCHANGED rewrite_vars
    /\ UNCHANGED run_vars

\* lines 57-64: the match reaches the end of the name, its tokens are file parts
ScanMatchLast ==
    /\ pc = "scan" /\ i < Len(parts)
    /\ ~nesting_stopped
    /\ \E first \in FirstMatches(parts, i) :
       LET n == Len(first.fw_tokens)
       IN  /\ ReachesEnd(i, n, Len(parts))
           /\ file_parts' = file_parts \o Slice(parts, i, n)
           /\ i' = i + n
           /\ pc' = IF LoopLeft(i + n, FALSE) THEN "exit" ELSE "scan"
    /\ nesting_stopped' = TRUE
    /\ iterations' = iterations + 1
    /\ UNCHANGED folder_vars
    /\ UNCHANGED <<case_style, extension, dest_path, src_file, parts,
                   folder_parts, stop_at_no_nest, restructured, dest_file,
                   copied, route_map, log>>
    /\ UNCHANGED <<src_root, src_parent>>
    /\ UNCHANGED rewrite_vars
    /\ UNCHANGED run_vars

\* lines 66-73 and 81-85: the match becomes a folder; a no-nest keyword
\* flattens the remaining tokens into the file parts and leaves the loop
ScanMatchFolder ==
    /\ pc = "scan" /\ i < Len(parts)
    /\ ~nesting_stopped
    /\ \E first \in FirstMatches(parts, i) :
       LET fw == first.fw
           n  == Len(first.fw_tokens)
           no_nest == IsNoNest(fw)
       IN  /\ ~ReachesEnd(i, n, Len(parts))
           /\ folder_parts' = Append(folder_parts, fw)
           /\ i' = i + n
           /\ stop_at_no_nest' = no_nest
           /\ file_parts' = IF no_nest THEN file_parts \o Remaining(parts, i + n)
                            ELSE file_parts
           /\ pc' = IF LoopLeft(i + n, no_nest) THEN "exit" ELSE "scan"
    /\ iterations' = iterations + 1
    /\ UNCHANGED folder_vars
    /\ UNCHANGED <<case_style, extension, dest_path, src_file, parts,
                   nesting_stopped, restructured, dest_file, copied,
                   route_map, log>>
    /\ UNCHANGED <<src_root, src_parent>>
    /\ UNCHANGED rewrite_vars
    /\ UNCHANGED run_vars

\* lines 75-79: no keyword at the cursor, nesting stops
ScanNoMatch ==
    /\ pc = "scan" /\ i < Len(parts)
    /\ ~nesting_stopped
    /\ MatchesAt(parts, i) = {}
    /\ nesting_stopped' = TRUE
    /\ file_parts' = Append(file_parts, parts[i + 1])
    /\ i' = i + 1
    /\ iterations' = iterations + 1
    /\ pc' = IF LoopLeft(i + 1, FALSE) THEN "exit" ELSE "scan"
    /\ UNCHANGED folder_vars
    /\ UNCHANGED <<case_style, extension, dest_path, src_file, parts,
                   folder_parts, stop_at_no_nest, restructured, dest_file,
                   copied, route_map, log>>
    /\ UNCHANGED <<src_root, src_parent>>
    /\ UNCHANGED rewrite_vars
    /\ UNCHANGED run_vars

\* lines 87-92: the final filename
FinalFile(folders, files, filename) ==
    LET ext == SplitExt(filename)[2]
    IN  IF files = <<>> /\ folders # <<>> THEN folders[Len(folders)] \o ext
        ELSE IF files # <<>> THEN StrJoin(files, Hyphen) \o ext
        ELSE filename

ReturnedPath_FirstFolderOnly(dest_root, existing_parent, folders, file, no_nest) ==
    IF folders # <<>>
    THEN dest_root \o <<folders[1], file>>
    ELSE dest_root \o existing_parent \o <<file>>

\* lines 94-97: the returned path
ReturnedPath(dest_root, existing_parent, folders, file, no_nest) ==
    IF no_nest
    THEN dest_root \o <<folders[1], file>>
    ELSE dest_root \o existing_parent \o folders \o <<file>>

\* lines 41-85 as a whole: every outcome of the loop from the cursor on, over
\* the orders in which the keywords can be tried
RECURSIVE ScanOutcomes(_, _, _, _, _)
ScanOutcomes(ps, at, folders, fparts, stopped) ==
    IF at >= Len(ps)
    THEN {[folder_parts |-> folders, file_parts |-> fparts, stop_at_no_nest |-> FALSE]}
    ELSE IF stopped \/ MatchesAt(ps, at) = {}
    THEN ScanOutcomes(ps, at + 1, folders, Append(fparts, ps[at + 1]), TRUE)
    ELSE UNION {
        LET n == Len(first.fw_tokens)
        IN  IF ReachesEnd(at, n, Len(ps))
            THEN ScanOutcomes(ps, at + n, folders, fparts \o Slice(ps, at, n), TRUE)
            ELSE IF IsNoNest(first.fw)
            THEN {[ folder_parts |-> Append(folders, first.fw)
                  , file_parts |-> fparts \o Remaining(ps, at + n)
                  , stop_at_no_nest |-> TRUE ]}
            ELSE ScanOutcomes(ps, at + n, Append(folders, first.fw), fparts, FALSE)
        : first \in FirstMatches(ps, at) }

\* lines 27-97: the paths _get_restructured_path can return for a file of the
\* given name in the directory existing_parent below src_root
RestructuredPaths(filename, existing_parent, dest_root) ==
    { ReturnedPath(dest_root, existing_parent, o.folder_parts,
                   FinalFile(o.folder_parts, o.file_parts, filename),
                   o.stop_at_no_nest)
      : o \in ScanOutcomes(StrSplit(SplitExt(filename)[1], "-"), 0, <<>>, <<>>, FALSE) }

BuildPath ==
    /\ pc = "exit"
    /\ restructured' =
          ReturnedPath(dest_path, src_file.parent, folder_parts,
                       FinalFile(folder_parts, file_parts, src_file.name),
                       stop_at_no_nest)
    /\ pc' = "built"
    /\ UNCHANGED folder_vars
    /\ UNCHANGED <<case_style, extension, dest_path, src_file, parts,
                   folder_parts, file_parts, i, stop_at_no_nest,
                   nesting_stopped, iterations, dest_file, copied, route_map,
                   log>>
    /\ UNCHANGED <<src_root, src_parent>>
    /\ UNCHANGED rewrite_vars
    /\ UNCHANGED run_vars

----------------------------------------------------------------------------
(* transpilex/utils/restructure.py: restructure_and_copy_files *)

\* lines 134-143: one part of the path, cased
CasedPart(part, style) ==
    LET d    == RFindChar(part, ".")
        stem == IF d = 0 THEN part ELSE SubSeq(part, 1, d - 1)
        ext  == IF d = 0 THEN <<>> ELSE Drop(part, d + 1)
        new_stem == IF style = "pascal" THEN apply_casing(stem, "pascal")
                    ELSE apply_casing(stem, "kebab")
    IN  IF ext # <<>> THEN new_stem \o <<".">> \o ext ELSE new_stem

\* lines 115-145: every part of the path is cased
ApplyCaseStyle(path, style) == [k \in 1..Len(path) |-> CasedPart(path[k], style)]

\* lines 160-163: casing, then the target extension
DestFile(path, style, ext) ==
    LET cased == ApplyCaseStyle(path, style)
    IN  IF ext # <<>> THEN WithSuffix(cased, ext) ELSE cased

BladeSuffix == <<".","b","l","a","d","e">>

\* lines 172-178: the destination relative to dest_path
RelDest(file, root) ==
    IF IsRelativeTo(file, root) THEN RelativeTo(file, root)
    ELSE ParsePath(LStrip(ReplaceFirst(StrLower(AsPosix(file)),
                                       StrLower(AsPosix(root)), <<>>),
                          {"/", "\\"}))

\* the route with a trailing index segment removed
RoutePath_IndexCollapsed(file, root) ==
    LET no_ext == WithSuffix(RelDest(file, root), <<>>)
        route_stem == apply_casing(RemoveSuffix(AsPosix(no_ext), BladeSuffix), "kebab")
        segs == StrSplit(LStrip(route_stem, {"/"}), "/")
        kept == IF segs[Len(segs)] = <<"i","n","d","e","x">>
                THEN SubSeq(segs, 1, Len(segs) - 1) ELSE segs
    IN  Slash \o StrJoin(kept, Slash)

\* lines 180-182: the route of a destination file
RoutePath(file, root) ==
    LET no_ext == WithSuffix(RelDest(file, root), <<>>)
        route_stem == apply_casing(RemoveSuffix(AsPosix(no_ext), BladeSuffix), "kebab")
    IN  Slash \o LStrip(route_stem, {"/"})

\* lines 159-184: the file is copied and its route stored under its name
CopyFile ==
    /\ pc = "built"
    /\ LET file == DestFile(restructured, case_style, extension)
       IN  /\ dest_file' = file
           /\ copied' = copied \cup {file}
           /\ route_map' = (src_file.name :> RoutePath(file, dest_path)) @@ route_map
    /\ pc' = "done"
    /\ UNCHANGED folder_vars
    /\ UNCHANGED <<case_style, extension, dest_path, src_file, parts,
                   folder_parts, file_parts, i, stop_at_no_nest,
                   nesting_stopped, iterations, restructured, log>>
    /\ UNCHANGED <<src_root, src_parent>>
    /\ UNCHANGED rewrite_vars
    /\ UNCHANGED run_vars

\* lines 165-167 and 186-187: mkdir or copy2 raises, the error is logged and
\* no route is stored
CopyFails ==
    /\ pc = "built"
    /\ dest_file' = DestFile(restructured, case_style, extension)
    /\ log' = Append(log, "error")
    /\ pc' = "done"
    /\ UNCHANGED folder_vars
    /\ UNCHANGED <<case_style, extension, dest_path, src_file, parts,
                   folder_parts, file_parts, i, stop_at_no_nest,
                   nesting_stopped, iterations, restructured, copied,
                   route_map>>
    /\ UNCHANGED <<src_root, src_parent>>
    /\ UNCHANGED rewrite_vars
    /\ UNCHANGED run_vars

\* no file is being restructured
Idle ==
    /\ case_style = "kebab"
    /\ extension = Ext_blade
    /\ dest_path = Dest_plain
    /\ src_root = PagesPath
    /\ src_parent = <<>>
    /\ src_file = NoFile
    /\ parts = <<>>
    /\ folder_parts = <<>>
    /\ file_parts = <<>>
    /\ i = 0
    /\ stop_at_no_nest = FALSE
    /\ nesting_stopped = FALSE
    /\ iterations = 0
    /\ restructured = <<>>
    /\ dest_file = <<>>
    /\ copied = {}
    /\ route_map = <<>>

NoArgs == [framework |-> <<>>, frontend_pipeline |-> <<>>, others |-> FALSE]
NoConfig == [framework |-> <<>>, frontend_pipeline |-> <<>>]

\* main has not been entered
NoRun ==
    /\ cli_args = NoArgs
    /\ project_config = NoConfig
    /\ converter = "none"
    /\ steps = <<>>
    /\ all_files = <<>>
    /\ handled = <<>>
    /\ exit_code = -1

\* no folder is being walked
NoFolders ==
    /\ visited = {}
    /\ partials_dir = {}
    /\ listing = <<>>

\* no include is being rewritten
NoRewrite ==
    /\ emitter = "none"
    /\ params_raw = <<>>
    /\ raw = <<>>
    /\ params = <<>>
    /\ params_type = "dict"
    /\ page = <<>>
    /\ content = <<>>
    /\ fragments = <<>>
    /\ frag_done = 0

Init ==
    /\ NoFolders
    /\ \E call \in EmitterCalls :
          /\ case_style = call.case_style
          /\ extension = call.extension
    /\ dest_path \in DestPaths
    /\ src_root = PagesPath
    /\ src_parent = <<>>
    /\ src_file = NoFile
    /\ parts = <<>>
    /\ folder_parts = <<>>
    /\ file_parts = <<>>
    /\ i = 0
    /\ stop_at_no_nest = FALSE
    /\ nesting_stopped = FALSE
    /\ iterations = 0
    /\ restructured = <<>>
    /\ dest_file = <<>>
    /\ copied = {}
    /\ route_map = <<>>
    /\ log = <<>>
    /\ NoRun
    /\ pc = "idle"
    /\ NoRewrite

Next ==
    \/ StartFile
    \/ ScanStopped
    \/ ScanMatchLast
    \/ ScanMatchFolder
    \/ ScanNoMatch
    \/ BuildPath
    \/ CopyFile
    \/ CopyFails

Spec == Init /\ [][Next]_vars

----------------------------------------------------------------------------
(* _get_restructured_path called on its own, with a file anywhere *)

\* lines 21-25: the path relative to src_root, or the bare filename when the
\* file does not lie under src_root
RelativePath_KeepsParent(path, root) ==
    IF IsRelativeTo(path, root) THEN RelativeTo(path, root)
    ELSE SubSeq(path, Len(path) - 1, Len(path))

RelativePath(path, root) ==
    IF IsRelativeTo(path, root) THEN RelativeTo(path, root)
    ELSE <<path[Len(path)]>>

\* the src_root arguments
SourceRoots == {PagesPath, <<Slash, <<"s">>, <<"p">>>>}

\* the directories of the src_file arguments
SourceParents ==
    { PagesPath
    , <<Slash, <<"s">>, <<"p">>>>
    , <<Slash, <<"o">>>>
    , <<Slash, <<"o">>, <<"p">>>>
    , <<Slash, <<"s","s">>>> }

\* lines 21-39 for any src_file and src_root
CallRestructured ==
    /\ pc = "call"
    /\ \E name \in SourceNames, parent \in SourceParents :
          LET relative_path == RelativePath(parent \o <<name>>, src_root)
          IN  /\ src_parent' = parent
              /\ src_file' =
                    [ parent |-> SubSeq(relative_path, 1, Len(relative_path) - 1)
                    , name   |-> relative_path[Len(relative_path)] ]
              /\ parts' = StrSplit(SplitExt(relative_path[Len(relative_path)])[1], "-")
              /\ log' = IF IsRelativeTo(parent \o <<name>>, src_root) THEN log
                        ELSE Append(log, "warning")
    /\ folder_parts' = <<>>
    /\ file_parts' = <<>>
    /\ i' = 0
    /\ stop_at_no_nest' = FALSE
    /\ nesting_stopped' = FALSE
    /\ iterations' = 0
    /\ pc' = "scan"
    /\ UNCHANGED folder_vars
    /\ UNCHANGED <<case_style, extension, dest_path, src_root, restructured,
                   dest_file, copied, route_map>>
    /\ UNCHANGED rewrite_vars
    /\ UNCHANGED run_vars

InitCall ==
    /\ NoFolders
    /\ case_style = "kebab"
    /\ extension = Ext_blade
    /\ dest_path \in DestPaths
    /\ src_root \in SourceRoots
    /\ src_parent = <<>>
    /\ src_file = NoFile
    /\ parts = <<>>
    /\ folder_parts = <<>>
    /\ file_parts = <<>>
    /\ i = 0
    /\ stop_at_no_nest = FALSE
    /\ nesting_stopped = FALSE
    /\ iterations = 0
    /\ restructured = <<>>
    /\ dest_file = <<>>
    /\ copied = {}
    /\ route_map = <<>>
    /\ log = <<>>
    /\ NoRun
    /\ pc = "call"
    /\ NoRewrite

NextCall ==
    \/ CallRestructured
    \/ ScanStopped
    \/ ScanMatchLast
    \/ ScanMatchFolder
    \/ ScanNoMatch
    \/ BuildPath

SpecCall == InitCall /\ [][NextCall]_vars

----------------------------------------------------------------------------
(* Python's re module: a pattern is a syntax tree, matched by backtracking  *)
(* in the order re tries the alternatives (greedy repetition first, left    *)
(* alternative first).                                                      *)

Digits == {"0","1","2","3","4","5","6","7","8","9"}
Letters == DOMAIN UpperToLower \cup DOMAIN LowerToUpper
\* the class \w
WordChars == Letters \cup Digits \cup {"_"}
\* the class \s
SpaceChars == Whitespace

\* [...] and [^...]
Ch(set) == [op |-> "class", set |-> set, neg |-> FALSE]
NotCh(set) == [op |-> "class", set |-> set, neg |-> TRUE]
\* . under DOTALL, [\s\S]
AnyChar == NotCh({})
\* concatenation
Cat(items) == [op |-> "cat", items |-> items]
\* a|b
Alt(a, b) == [op |-> "alt", a |-> a, b |-> b]
\* x* (x never matches the empty string in the patterns below)
Star(x) == [op |-> "star", x |-> x]
\* x+
Plus(x) == Cat(<<x, Star(x)>>)
\* x?
Opt(x) == Alt(x, Cat(<<>>))
\* (x) and (?P<n>x): a group named n
Grp(n, x) == Cat(<<[op |-> "open", n |-> n], x, [op |-> "close", n |-> n]>>)
\* $
Eol == [op |-> "eol"]
\* a literal text
Lit(text) == Cat([k \in 1..Len(text) |-> Ch({text[k]})])

NoGroups == [n \in {} |-> <<0, 0>>]
NoMatch == [start |-> 0, end |-> 0, groups |-> NoGroups]

\* the position after the longest run of characters of a class from sp
RunEnd(node, s, sp) ==
    LET stops == {k \in sp..Len(s) : (s[k] \in node.set) = node.neg}
    IN  IF stops = {} THEN Len(s) + 1
        ELSE CHOOSE k \in stops : \A h \in stops : k <= h

RECURSIVE MatchHere(_, _, _, _)
RECURSIVE GiveBack(_, _, _, _, _)

\* a greedy x* over a class x: the longest run first, then one character
\* less at a time down to position low
GiveBack(rest, s, sp, low, groups) ==
    LET m == MatchHere(rest, s, sp, groups)
    IN  IF m.end # 0 \/ sp = low THEN m
        ELSE GiveBack(rest, s, sp - 1, low, groups)

\* match the nodes of todo one after the other from position sp of s; end
\* is the position after the match, 0 when there is none
MatchHere(todo, s, sp, groups) ==
    IF todo = <<>> THEN [start |-> 0, end |-> sp, groups |-> groups]
    ELSE
    LET node == Head(todo)
        rest == Tail(todo)
    IN  CASE node.op = "class" ->
                IF sp <= Len(s) /\ ((s[sp] \in node.set) # node.neg)
                THEN MatchHere(rest, s, sp + 1, groups)
                ELSE NoMatch
          [] node.op = "cat" -> MatchHere(node.items \o rest, s, sp, groups)
          [] node.op = "alt" ->
                LET left == MatchHere(<<node.a>> \o rest, s, sp, groups)
                IN  IF left.end # 0 THEN left
                    ELSE MatchHere(<<node.b>> \o rest, s, sp, groups)
          [] node.op = "star" /\ node.x.op = "class" ->
                GiveBack(rest, s, RunEnd(node.x, s, sp), sp, groups)
          [] node.op = "star" /\ node.x.op # "class" ->
                LET more == MatchHere(<<node.x, node>> \o rest, s, sp, groups)
                IN  IF more.end # 0 THEN more
                    ELSE MatchHere(rest, s, sp, groups)
          [] node.op = "open" ->
                MatchHere(rest, s, sp, (node.n :> <<sp, sp>>) @@ groups)
          [] node.op = "close" ->
                MatchHere(rest, s, sp, (node.n :> <<groups[node.n][1], sp>>) @@ groups)
          [] node.op = "eol" ->
                IF sp = Len(s) + 1 \/ (sp = Len(s) /\ s[sp] = "\n")
                THEN MatchHere(rest, s, sp, groups)
                ELSE NoMatch

\* pattern.match(s, at)
MatchAt(rx, s, at) ==
    LET m == MatchHere(<<rx>>, s, at, NoGroups)
    IN  IF m.end = 0 THEN NoMatch ELSE [m EXCEPT !.start = at]

\* pattern.search(s, at): the leftmost match
SearchFrom(rx, s, at) ==
    LET hits == {k \in at..(Len(s) + 1) : MatchHere(<<rx>>, s, k, NoGroups).end # 0}
    IN  IF hits = {} THEN NoMatch
        ELSE MatchAt(rx, s, CHOOSE k \in hits : \A h \in hits : k <= h)

Matched(m) == m.end # 0

\* m.group(n); a group that took no part in the match gives the empty text
\* (None for m.group, '' for findall: the callers only test it for truth)
Group(m, s, n) ==
    IF n \in DOMAIN m.groups
    THEN SubSeq(s, m.groups[n][1], m.groups[n][2] - 1)
    ELSE <<>>

\* pattern.finditer(s): the successive non-overlapping matches
RECURSIVE FindIterFrom(_, _, _)
FindIterFrom(rx, s, at) ==
    LET m == SearchFrom(rx, s, at)
    IN  IF ~Matched(m) THEN <<>>
        ELSE <<m>> \o FindIterFrom(rx, s, IF m.end = m.start THEN m.end + 1 ELSE m.end)

FindIter(rx, s) == FindIterFrom(rx, s, 1)

\* a replacement template: literal texts and group references
Ref(n) == [ref |-> n, text |-> <<>>]
Txt(text) == [ref |-> "", text |-> text]

RECURSIVE Expand(_, _, _)
Expand(template, m, s) ==
    IF template = <<>> THEN <<>>
    ELSE (IF Head(template).ref = "" THEN Head(template).text
          ELSE Group(m, s, Head(template).ref))
         \o Expand(Tail(template), m, s)

\* re.sub(pattern, template, s)
RECURSIVE SubFrom(_, _, _, _)
SubFrom(rx, template, s, at) ==
    LET m == SearchFrom(rx, s, at)
    IN  IF ~Matched(m) THEN Drop(s, at)
        ELSE SubSeq(s, at, m.start - 1) \o Expand(template, m, s)
             \o (IF m.end = m.start
                 THEN SubSeq(s, m.end, m.end) \o SubFrom(rx, template, s, m.end + 1)
                 ELSE SubFrom(rx, template, s, m.end))

Sub(rx, template, s) == SubFrom(rx, template, s, 1)

----------------------------------------------------------------------------
(* Python values, html.unescape and json.loads *)

\* a Python value carries its type; an int is kept as its decimal text, a
\* float as the literal it was read from
PyStr(text) == [t |-> "str", v |-> text]
PyInt(text) == [t |-> "int", v |-> text]
PyFloat(text) == [t |-> "float", v |-> text]
PyBool(b) == [t |-> "bool", v |-> IF b THEN <<"T", "r", "u", "e">> ELSE <<"F", "a", "l", "s", "e">>]
PyNone == [t |-> "NoneType", v |-> <<"N", "o", "n", "e">>]
PyDict(pairs) == [t |-> "dict", v |-> pairs]
PyList(items) == [t |-> "list", v |-> items]

\* a dict is the sequence of its <<key, value>> pairs in insertion order
EmptyDict == <<>>

HasKey(d, key) == \E k \in 1..Len(d) : d[k][1] = key

\* d[key] = value: a key that is present keeps its place
DictPut(d, key, value) ==
    IF HasKey(d, key)
    THEN [k \in 1..Len(d) |-> IF d[k][1] = key THEN <<key, value>> ELSE d[k]]
    ELSE Append(d, <<key, value>>)

\* d[key] for a key that is present
DictGet(d, key) == d[CHOOSE k \in 1..Len(d) : d[k][1] = key][2]

\* int(text) for text matching -?\d+: sign and leading zeros normalised
RECURSIVE StripZeros(_)
StripZeros(digits) ==
    IF Len(digits) > 1 /\ digits[1] = "0" THEN StripZeros(Tail(digits)) ELSE digits

IntOf(text) ==
    LET neg == Len(text) > 0 /\ text[1] = "-"
        mag == StripZeros(IF neg THEN Tail(text) ELSE text)
    IN  PyInt(IF neg /\ mag # <<"0">> THEN <<"-">> \o mag ELSE mag)

\* float(n) if "." in n else int(n)
NumberOf(text) ==
    IF \E k \in 1..Len(text) : text[k] = "." THEN PyFloat(text) ELSE IntOf(text)

\* s[p:p+1] and s.startswith(text, p)
At(s, p) == IF p <= Len(s) THEN s[p] ELSE ""

HasAt(s, p, text) ==
    p + Len(text) - 1 <= Len(s) /\ SubSeq(s, p, p + Len(text) - 1) = text

\* html.unescape for the character references of the inputs: the named
\* references with and without their semicolon and the numeric quotes
HtmlEntities ==
    << <<<<"&", "q", "u", "o", "t", ";">>, <<"\"">>>>, <<<<"&", "q", "u", "o", "t">>, <<"\"">>>>,
       <<<<"&", "a", "m", "p", ";">>, <<"&">>>>,  <<<<"&", "a", "m", "p">>, <<"&">>>>,
       <<<<"&", "l", "t", ";">>, <<"<">>>>,   <<<<"&", "l", "t">>, <<"<">>>>,
       <<<<"&", "g", "t", ";">>, <<">">>>>,   <<<<"&", "g", "t">>, <<">">>>>,
       <<<<"&", "a", "p", "o", "s", ";">>, <<"'">>>>, <<<<"&", "#", "3", "9", ";">>, <<"'">>>>, <<<<"&", "#", "3", "4", ";">>, <<"\"">>>> >>

EntityAt(s, p) ==
    LET hits == {k \in 1..Len(HtmlEntities) : HasAt(s, p, HtmlEntities[k][1])}
    IN  IF hits = {} THEN 0 ELSE CHOOSE k \in hits : \A h \in hits : k <= h

\* the pieces of a sequence of texts from lo to hi, joined
RECURSIVE Joined(_, _, _)
Joined(pieces, lo, hi) ==
    IF lo > hi THEN <<>>
    ELSE IF lo = hi THEN pieces[lo]
    ELSE LET mid == (lo + hi) \div 2
         IN  Joined(pieces, lo, mid) \o Joined(pieces, mid + 1, hi)

\* position p starts a character reference (a reference holds no second &)
StartsEntity(s, p) == s[p] = "&" /\ EntityAt(s, p) # 0

\* what position p of s gives to the result: the character a reference
\* stands for at its first position and nothing at its others
UnescapeFrom(s, p) ==
    IF StartsEntity(s, p) THEN HtmlEntities[EntityAt(s, p)][2]
    ELSE IF \E q \in 1..(p - 1) :
                StartsEntity(s, q) /\ p < q + Len(HtmlEntities[EntityAt(s, q)][1])
         THEN <<>>
         ELSE <<s[p]>>

HtmlUnescape(s) == Joined([p \in 1..Len(s) |-> UnescapeFrom(s, p)], 1, Len(s))

\* json.loads: the decoder of Python's json package (the escapes \b and
\* \uXXXX do not occur in the inputs and are left out)
JsonWhitespace == {" ", "\t", "\n", "\r"}
JsonControl == {"\t", "\n", "\r", "\f"}
JsonEscapes ==
    ("\"" :> "\"") @@ ("\\" :> "\\") @@ ("/" :> "/") @@ ("n" :> "\n")
    @@ ("t" :> "\t") @@ ("r" :> "\r") @@ ("f" :> "\f")

\* json.decoder.NUMBER_RE: (-?(?:0|[1-9][0-9]*))(\.[0-9]+)?([eE][-+]?[0-9]+)?
NUMBER_RE ==
    Cat(<<Grp("integer", Cat(<<Opt(Ch({"-"})),
                               Alt(Ch({"0"}), Cat(<<Ch(Digits \ {"0"}), Star(Ch(Digits))>>))>>)),
          Opt(Grp("frac", Cat(<<Ch({"."}), Plus(Ch(Digits))>>))),
          Opt(Grp("exp", Cat(<<Ch({"e", "E"}), Opt(Ch({"-", "+"})), Plus(Ch(Digits))>>)))>>)

JsonError == [ok |-> FALSE, value |-> PyNone, next |-> 0]
JsonOk(value, next) == [ok |-> TRUE, value |-> value, next |-> next]

RECURSIVE SkipWs(_, _)
SkipWs(s, p) ==
    IF p <= Len(s) /\ s[p] \in JsonWhitespace THEN SkipWs(s, p + 1) ELSE p

\* the text at p..q of s holds an odd number of backslashes right before q:
\* the character at q is escaped
Escaped(s, p, q) ==
    LET others == {k \in p..(q - 1) : s[k] # "\\"}
        last   == IF others = {} THEN p - 1
                  ELSE CHOOSE k \in others : \A h \in others : h <= k
    IN  (q - 1 - last) % 2 = 1

\* the first quote character from p on that is not escaped, 0 if none
ClosingQuote(s, p, quote) ==
    LET quotes == {q \in p..Len(s) : s[q] = quote /\ ~Escaped(s, p, q)}
    IN  IF quotes = {} THEN 0
        ELSE CHOOSE q \in quotes : \A h \in quotes : q <= h

\* py_scanstring in strict mode, from the character after the opening quote
JsonChars(s, p) ==
    LET close == ClosingQuote(s, p, "\"")
        body  == p..(close - 1)
    IN  IF close = 0 THEN JsonError
        ELSE IF \E k \in body :
                    \/ Escaped(s, p, k) /\ s[k] \notin DOMAIN JsonEscapes
                    \/ ~Escaped(s, p, k) /\ s[k] \in JsonControl
             THEN JsonError
             ELSE JsonOk(PyStr(Joined([k \in 1..(close - p) |->
                            LET c == s[p + k - 1]
                            IN  IF Escaped(s, p, p + k - 1) THEN <<JsonEscapes[c]>>
                                ELSE IF c = "\\" THEN <<>>
                                ELSE <<c>>], 1, close - p)),
                         close + 1)

JsonNumber(s, p) ==
    LET m == MatchAt(NUMBER_RE, s, p)
    IN  IF ~Matched(m) THEN JsonError
        ELSE IF Group(m, s, "frac") # <<>> \/ Group(m, s, "exp") # <<>>
             THEN JsonOk(PyFloat(SubSeq(s, m.start, m.end - 1)), m.end)
             ELSE JsonOk(IntOf(Group(m, s, "integer")), m.end)

RECURSIVE JsonValue(_, _)
RECURSIVE JsonMembers(_, _, _)
RECURSIVE JsonElements(_, _, _)

\* scanner.py_make_scanner: _scan_once
JsonValue(s, p) ==
    LET c == At(s, p)
    IN  CASE c = "\"" -> JsonChars(s, p + 1)
          [] c = "{" ->
                LET q == SkipWs(s, p + 1)
                IN  IF At(s, q) = "}" THEN JsonOk(PyDict(EmptyDict), q + 1)
                    ELSE JsonMembers(s, q, EmptyDict)
          [] c = "[" ->
                LET q == SkipWs(s, p + 1)
                IN  IF At(s, q) = "]" THEN JsonOk(PyList(<<>>), q + 1)
                    ELSE JsonElements(s, q, <<>>)
          [] c = "n" /\ HasAt(s, p, <<"n", "u", "l", "l">>) -> JsonOk(PyNone, p + 4)
          [] c = "t" /\ HasAt(s, p, <<"t", "r", "u", "e">>) -> JsonOk(PyBool(TRUE), p + 4)
          [] c = "f" /\ HasAt(s, p, <<"f", "a", "l", "s", "e">>) -> JsonOk(PyBool(FALSE), p + 5)
          [] c = "N" /\ HasAt(s, p, <<"N", "a", "N">>) -> JsonOk(PyFloat(<<"n", "a", "n">>), p + 3)
          [] c = "I" /\ HasAt(s, p, <<"I", "n", "f", "i", "n", "i", "t", "y">>) -> JsonOk(PyFloat(<<"i", "n", "f">>), p + 8)
          [] c = "-" /\ HasAt(s, p, <<"-", "I", "n", "f", "i", "n", "i", "t", "y">>) -> JsonOk(PyFloat(<<"-", "i", "n", "f">>), p + 9)
          [] OTHER -> JsonNumber(s, p)

\* decoder.JSONObject: the pairs from the first key at p onwards
JsonMembers(s, p, acc) ==
    IF At(s, p) # "\"" THEN JsonError
    ELSE
    LET key == JsonChars(s, p + 1)
    IN  IF ~key.ok THEN JsonError
        ELSE
        LET colon == SkipWs(s, key.next)
        IN  IF At(s, colon) # ":" THEN JsonError
            ELSE
            LET val == JsonValue(s, SkipWs(s, colon + 1))
            IN  IF ~val.ok THEN JsonError
                ELSE
                LET after == SkipWs(s, val.next)
                    pairs == DictPut(acc, key.value.v, val.value)
                IN  CASE At(s, after) = "}" -> JsonOk(PyDict(pairs), after + 1)
                      [] At(s, after) = "," -> JsonMembers(s, SkipWs(s, after + 1), pairs)
                      [] OTHER -> JsonError

\* decoder.JSONArray: the elements from the one at p onwards
JsonElements(s, p, acc) ==
    LET val == JsonValue(s, p)
    IN  IF ~val.ok THEN JsonError
        ELSE
        LET after == SkipWs(s, val.next)
        IN  CASE At(s, after) = "]" -> JsonOk(PyList(Append(acc, val.value)), after + 1)
              [] At(s, after) = "," -> JsonElements(s, SkipWs(s, after + 1), Append(acc, val.value))
              [] OTHER -> JsonError

\* json.loads(s): ok is FALSE where it raises JSONDecodeError
JsonLoads(s) ==
    LET val == JsonValue(s, SkipWs(s, 1))
    IN  IF val.ok /\ SkipWs(s, val.next) = Len(s) + 1 THEN val ELSE JsonError

----------------------------------------------------------------------------
(* ast.literal_eval: the literals of a Python expression.  String prefixes,
   triple quotes, the escapes other than those of PyEscapes, digit
   separators, complex numbers and dict keys that are not strings do not
   occur in the inputs and are left out. *)

\* the quote characters
Quote == {"'", "\""}

PySet(items) == [t |-> "set", v |-> items]
PyTuple(items) == [t |-> "tuple", v |-> items]

\* the tokenizer's blanks, and the line ends it skips inside brackets
PyWhitespace == {" ", "\t", "\f", "\n", "\r"}
PyEscapes ==
    ("\"" :> "\"") @@ ("'" :> "'") @@ ("\\" :> "\\") @@ ("n" :> "\n")
    @@ ("t" :> "\t") @@ ("r" :> "\r") @@ ("f" :> "\f")

LiteralError == [ok |-> FALSE, value |-> PyNone, next |-> 0]
LiteralOk(value, next) == [ok |-> TRUE, value |-> value, next |-> next]

RECURSIVE SkipBlanks(_, _)
SkipBlanks(s, p) ==
    IF p <= Len(s) /\ s[p] \in PyWhitespace THEN SkipBlanks(s, p + 1) ELSE p

\* the values hash() accepts: keys of a dict, members of a set
RECURSIVE Hashable(_)
Hashable(value) ==
    CASE value.t \in {"list", "dict", "set"} -> FALSE
      [] value.t = "tuple" -> \A k \in 1..Len(value.v) : Hashable(value.v[k])
      [] OTHER -> TRUE

\* set(items): a member is kept once, at its first place
RECURSIVE Distinct(_, _)
Distinct(items, acc) ==
    IF items = <<>> THEN acc
    ELSE Distinct(Tail(items),
                  IF \E k \in 1..Len(acc) : acc[k] = Head(items)
                  THEN acc ELSE Append(acc, Head(items)))

\* the characters of a string literal, from the one after the opening quote
LiteralChars(s, p, quote) ==
    LET close == ClosingQuote(s, p, quote)
        body  == p..(close - 1)
    IN  IF close = 0 THEN LiteralError
        ELSE IF \E k \in body : ~Escaped(s, p, k) /\ s[k] \in {"\n", "\r"}
             THEN LiteralError
             ELSE LiteralOk(PyStr(Joined([k \in 1..(close - p) |->
                            LET c == s[p + k - 1]
                            IN  IF Escaped(s, p, p + k - 1)
                                THEN IF c \in DOMAIN PyEscapes THEN <<PyEscapes[c]>>
                                     ELSE <<"\\", c>>
                                ELSE IF c = "\\" THEN <<>>
                                ELSE <<c>>], 1, close - p)),
                            close + 1)

\* adjacent string literals are one string
RECURSIVE LiteralStrings(_, _, _)
LiteralStrings(s, p, acc) ==
    LET str == LiteralChars(s, p + 1, s[p])
    IN  IF ~str.ok THEN LiteralError
        ELSE LET after == SkipBlanks(s, str.next)
                 text  == acc \o str.value.v
             IN  IF At(s, after) \in Quote
                 THEN LiteralStrings(s, after, text)
                 ELSE LiteralOk(PyStr(text), str.next)

\* a decimal number: digits [. digits] [exponent], or . digits [exponent]
RX_PyNumber ==
    Cat(<<Alt(Cat(<<Grp("int", Plus(Ch(Digits))),
                    Opt(Grp("frac", Cat(<<Ch({"."}), Star(Ch(Digits))>>)))>>),
              Grp("point", Cat(<<Ch({"."}), Plus(Ch(Digits))>>))),
          Opt(Grp("exp", Cat(<<Ch({"e", "E"}), Opt(Ch({"-", "+"})), Plus(Ch(Digits))>>)))>>)

\* an int literal with a leading zero is a syntax error unless it is all zeros
LiteralNumber(s, p, sign) ==
    LET m == MatchAt(RX_PyNumber, s, p)
    IN  IF ~Matched(m) \/ At(s, m.end) \in WordChars THEN LiteralError
        ELSE IF {"frac", "point", "exp"} \cap DOMAIN m.groups # {}
             THEN LiteralOk(PyFloat(sign \o SubSeq(s, m.start, m.end - 1)), m.end)
             ELSE LET digits == Group(m, s, "int")
                  IN  IF digits[1] = "0" /\ StripZeros(digits) # <<"0">>
                      THEN LiteralError
                      ELSE LiteralOk(IntOf(sign \o digits), m.end)

RX_PyName == Cat(<<Ch(Letters \cup {"_"}), Star(Ch(WordChars))>>)

\* True, False and None are constants; any other name is a malformed node
LiteralName(s, p) ==
    LET m    == MatchAt(RX_PyName, s, p)
        name == SubSeq(s, m.start, m.end - 1)
    IN  CASE name = <<"T", "r", "u", "e">> -> LiteralOk(PyBool(TRUE), m.end)
          [] name = <<"F", "a", "l", "s", "e">> -> LiteralOk(PyBool(FALSE), m.end)
          [] name = <<"N", "o", "n", "e">> -> LiteralOk(PyNone, m.end)
          [] OTHER -> LiteralError

RECURSIVE LiteralValue(_, _)
RECURSIVE LiteralItems(_, _, _, _)
RECURSIVE LiteralPairs(_, _, _, _)

\* one expression at p; a binary operator after it is malformed
LiteralValue(s, p) ==
    LET c == At(s, p)
    IN  CASE c \in Quote -> LiteralStrings(s, p, <<>>)
          [] c = "{" ->
                LET q == SkipBlanks(s, p + 1)
                IN  IF At(s, q) = "}" THEN LiteralOk(PyDict(EmptyDict), q + 1)
                    ELSE
                    LET first == LiteralValue(s, q)
                    IN  IF ~first.ok THEN LiteralError
                        ELSE IF At(s, SkipBlanks(s, first.next)) = ":"
                             THEN LiteralPairs(s, SkipBlanks(s, first.next) + 1, first.value, EmptyDict)
                             ELSE LET items == LiteralItems(s, q, "}", <<>>)
                                  IN  IF items.ok /\ \A k \in 1..Len(items.value.v) : Hashable(items.value.v[k])
                                      THEN LiteralOk(PySet(Distinct(items.value.v, <<>>)), items.next)
                                      ELSE LiteralError
          [] c = "[" ->
                LET q == SkipBlanks(s, p + 1)
                IN  IF At(s, q) = "]" THEN LiteralOk(PyList(<<>>), q + 1)
                    ELSE LiteralItems(s, q, "]", <<>>)
          [] c = "(" ->
                LET q == SkipBlanks(s, p + 1)
                IN  IF At(s, q) = ")" THEN LiteralOk(PyTuple(<<>>), q + 1)
                    ELSE
                    LET first == LiteralValue(s, q)
                    IN  IF ~first.ok THEN LiteralError
                        ELSE IF At(s, SkipBlanks(s, first.next)) = ")"
                             THEN LiteralOk(first.value, SkipBlanks(s, first.next) + 1)
                             ELSE LET items == LiteralItems(s, q, ")", <<>>)
                                  IN  IF items.ok
                                      THEN LiteralOk(PyTuple(items.value.v), items.next)
                                      ELSE LiteralError
          [] c \in {"-", "+"} ->
                LiteralNumber(s, SkipBlanks(s, p + 1), IF c = "-" THEN <<"-">> ELSE <<>>)
          [] c \in Digits \cup {"."} -> LiteralNumber(s, p, <<>>)
          [] c \in Letters \cup {"_"} -> LiteralName(s, p)
          [] OTHER -> LiteralError

\* the items of a display up to the closing bracket, from the item at p
LiteralItems(s, p, close, acc) ==
    LET val == LiteralValue(s, p)
    IN  IF ~val.ok THEN LiteralError
        ELSE
        LET after == SkipBlanks(s, val.next)
            items == Append(acc, val.value)
        IN  CASE At(s, after) = close -> LiteralOk(PyList(items), after + 1)
              [] At(s, after) = "," ->
                    LET q == SkipBlanks(s, after + 1)
                    IN  IF At(s, q) = close THEN LiteralOk(PyList(items), q + 1)
                        ELSE LiteralItems(s, q, close, items)
              [] OTHER -> LiteralError

\* the pairs of a dict display, from the value of the pair whose key was read
LiteralPairs(s, p, key, acc) ==
    LET val == LiteralValue(s, SkipBlanks(s, p))
    IN  IF ~val.ok \/ key.t # "str" THEN LiteralError
        ELSE
        LET after == SkipBlanks(s, val.next)
            pairs == DictPut(acc, key.v, val.value)
            q     == SkipBlanks(s, after + 1)
        IN  CASE At(s, after) = "}" -> LiteralOk(PyDict(pairs), after + 1)
              [] At(s, after) = "," /\ At(s, q) = "}" -> LiteralOk(PyDict(pairs), q + 1)
              [] At(s, after) = "," /\ At(s, q) # "}" ->
                    LET next_key == LiteralValue(s, q)
                        colon    == SkipBlanks(s, next_key.next)
                    IN  IF next_key.ok /\ At(s, colon) = ":"
                        THEN LiteralPairs(s, colon + 1, next_key.value, pairs)
                        ELSE LiteralError
              [] OTHER -> LiteralError

\* ast.literal_eval(s): ok is FALSE where it raises
LiteralEval(s) ==
    LET val == LiteralValue(s, SkipBlanks(s, 1))
    IN  IF val.ok /\ SkipBlanks(s, val.next) = Len(s) + 1 THEN val ELSE LiteralError

----------------------------------------------------------------------------
(* _parse_include_params of the emitters *)


\* ([\{\s,])\s*([a-zA-Z_][\w-]*)\s*:  ->  \1"\2":
RX_UnquotedKey ==
    Cat(<<Grp("1", Ch({"{", ","} \cup SpaceChars)),
          Star(Ch(SpaceChars)),
          Grp("2", Cat(<<Ch(Letters \cup {"_"}), Star(Ch(WordChars \cup {"-"}))>>)),
          Star(Ch(SpaceChars)),
          Ch({":"})>>)

QuotedKey == <<Ref("1"), Txt(<<"\"">>), Ref("2"), Txt(<<"\"", ":">>)>>

\* ,\s*([\}\]])  ->  \1
RX_TrailingComma ==
    Cat(<<Ch({","}), Star(Ch(SpaceChars)), Grp("1", Ch({"}", "]"}))>>)

ClosingBracket == <<Ref("1")>>

\* array\s*\(([\s\S]*)\)
RX_PhpArray ==
    Cat(<<Lit(<<"a", "r", "r", "a", "y">>), Star(Ch(SpaceChars)), Ch({"("}),
          Grp("1", Star(AnyChar)), Ch({")"})>>)

\* -?\d+(?:\.\d+)?
RX_Number ==
    Cat(<<Opt(Ch({"-"})), Plus(Ch(Digits)),
          Opt(Cat(<<Ch({"."}), Plus(Ch(Digits))>>))>>)

\* true|false
RX_Bool == Alt(Lit(<<"t", "r", "u", "e">>), Lit(<<"f", "a", "l", "s", "e">>))

\* ['\"](?P<key>[^'\"]+)['\"]\s*=>\s*
RX_KeyArrow ==
    Cat(<<Ch(Quote), Grp("key", Plus(NotCh(Quote))), Ch(Quote),
          Star(Ch(SpaceChars)), Lit(<<"=", ">">>), Star(Ch(SpaceChars))>>)

\* ['\"](?P<key>[^'\"]+)['\"]\s*=>\s*
\*   (['\"](?P<val>[^'\"]*)['\"]|(?P<bool>true|false)|(?P<num>-?\d+(?:\.\d+)?))
RX_BladePair ==
    Cat(<<RX_KeyArrow,
          Alt(Cat(<<Ch(Quote), Grp("val", Star(NotCh(Quote))), Ch(Quote)>>),
              Alt(Grp("bool", RX_Bool), Grp("num", RX_Number)))>>)

\* (\w+)=[\"']([^\"']+)[\"']
RX_KeyValue ==
    Cat(<<Grp("1", Plus(Ch(WordChars))), Ch({"="}),
          Ch(Quote), Grp("2", Plus(NotCh(Quote))), Ch(Quote)>>)

\* param_pattern of _extract_php_array_params (re.VERBOSE | re.DOTALL):
\*   (?:['"](?P<key>[^'"]+)['"]\s*=>\s*)?
\*   (?: ['"](?P<sval>(?:\\.|[^'"])*)['"] | (?P<nval>-?\d+(?:\.\d+)?) | (?P<bool>true|false) )
\*   \s*(?:,\s*|$)
RX_PhpParam ==
    Cat(<<Opt(RX_KeyArrow),
          Alt(Cat(<<Ch(Quote),
                    Grp("sval", Star(Alt(Cat(<<Ch({"\\"}), AnyChar>>), NotCh(Quote)))),
                    Ch(Quote)>>),
              Alt(Grp("nval", RX_Number), Grp("bool", RX_Bool))),
          Star(Ch(SpaceChars)),
          Alt(Cat(<<Ch({","}), Star(Ch(SpaceChars))>>), Eol)>>)

\* django.py 279: ([{,])\s*([a-zA-Z_][\w]*)\s*:  ->  \1 '\2':
RX_BareKey ==
    Cat(<<Grp("1", Ch({"{", ","})),
          Star(Ch(SpaceChars)),
          Grp("2", Cat(<<Ch(Letters \cup {"_"}), Star(Ch(WordChars))>>)),
          Star(Ch(SpaceChars)),
          Ch({":"})>>)

SingleQuotedKey == <<Ref("1"), Txt(<<" ", "'">>), Ref("2"), Txt(<<"'", ":">>)>>

\* django.py 284: \s{2,}  ->  one space
RX_Blanks == Cat(<<Ch(SpaceChars), Plus(Ch(SpaceChars))>>)

\* django.py 292: (\w+)\s*=\s*["\']([^"\']+)["\']
RX_SpacedKeyValue ==
    Cat(<<Grp("1", Plus(Ch(WordChars))), Star(Ch(SpaceChars)), Ch({"="}),
          Star(Ch(SpaceChars)),
          Ch(Quote), Grp("2", Plus(NotCh(Quote))), Ch(Quote)>>)

\* s.replace(old, new): every occurrence, from the left
StrReplace(s, old, new) == Sub(Lit(old), <<Txt(new)>>, s)

\* django.py 281: true, false and null become True, False and None
PythonConstants(s) ==
    StrReplace(StrReplace(StrReplace(s, <<"t", "r", "u", "e">>, <<"T", "r", "u", "e">>), <<"f", "a", "l", "s", "e">>, <<"F", "a", "l", "s", "e">>), <<"n", "u", "l", "l">>, <<"N", "o", "n", "e">>)

\* django.py 278-284: the text handed to ast.literal_eval
PythonLiteralText(text) ==
    Sub(RX_Blanks, <<Txt(<<" ">>)>>,
        Sub(RX_TrailingComma, ClosingBracket,
            PythonConstants(Sub(RX_BareKey, SingleQuotedKey, text))))

\* raw.startswith("{") and raw.endswith("}")
LooksLikeObject(text) == StartsWith(text, <<"{">>) /\ EndsWith(text, <<"}">>)

\* the two re.sub calls before json.loads
NormalizeJson(text) ==
    Sub(RX_TrailingComma, ClosingBracket, Sub(RX_UnquotedKey, QuotedKey, text))

\* the loop of _extract_php_array_params over the matches of param_pattern
RECURSIVE PhpArrayPairs(_, _, _)
PhpArrayPairs(matches, body, result) ==
    IF matches = <<>> THEN result
    ELSE
    LET match == Head(matches)
        key   == Group(match, body, "key")
        sval  == Group(match, body, "sval")
        nval  == Group(match, body, "nval")
        bool  == Group(match, body, "bool")
        next  == CASE key = <<>>   -> result
                   [] sval # <<>>  -> DictPut(result, key, PyStr(sval))
                   [] nval # <<>>  -> DictPut(result, key, NumberOf(nval))
                   [] bool # <<>>  -> DictPut(result, key, PyBool(bool = <<"t", "r", "u", "e">>))
                   [] OTHER        -> result
    IN  PhpArrayPairs(Tail(matches), body, next)

\* LaravelConverter._extract_php_array_params
ExtractPhpArrayParams(include_str) ==
    LET m == SearchFrom(RX_PhpArray, include_str, 1)
    IN  IF ~Matched(m) THEN EmptyDict
        ELSE LET body == Group(m, include_str, "1")
             IN  PhpArrayPairs(FindIter(RX_PhpParam, body), body, EmptyDict)

\* the argument _parse_include_params hands to _extract_php_array_params
PhpArrayArgument(text) ==
    <<"a", "r", "r", "a", "y", "(">> \o Group(SearchFrom(RX_PhpArray, text, 1), text, "1") \o <<")">>

\* the loop over blade_matches
RECURSIVE BladePairs(_, _, _)
BladePairs(matches, text, parsed) ==
    IF matches = <<>> THEN parsed
    ELSE
    LET m == Head(matches)
        k == Group(m, text, "key")
        v == Group(m, text, "val")
        b == Group(m, text, "bool")
        n == Group(m, text, "num")
        next == CASE v # <<>> -> DictPut(parsed, k, PyStr(v))
                  [] b # <<>> -> DictPut(parsed, k, PyBool(b = <<"t", "r", "u", "e">>))
                  [] n # <<>> -> DictPut(parsed, k, NumberOf(n))
                  [] OTHER    -> parsed
    IN  BladePairs(Tail(matches), text, next)

\* {k: v for k, v in kv_pairs}
RECURSIVE KeyValuePairs(_, _, _)
KeyValuePairs(matches, text, parsed) ==
    IF matches = <<>> THEN parsed
    ELSE KeyValuePairs(Tail(matches), text,
            DictPut(parsed, Group(Head(matches), text, "1"),
                    PyStr(Group(Head(matches), text, "2"))))

\* the emitters whose parser is modelled; Symfony's is Laravel's line for line
BladeParsers == {"laravel", "symfony"}
\* the emitters that hand the blob to ast.literal_eval; FastAPI's and
\* Flask's parsers are Django's line for line
LiteralParsers == {"django"}
ParamParsers == BladeParsers \cup {"ror", "core"} \cup LiteralParsers

\* the grammar tried after the JSON one
NextGrammar(em) == IF em \in BladeParsers THEN "array" ELSE "kv"

\* _parse_include_params(raw) as one function of the emitter and the blob
ParseIncludeParams(em, blob) ==
    IF blob = <<>> THEN EmptyDict
    ELSE
    LET text == HtmlUnescape(StrStrip(blob))
        json == IF LooksLikeObject(text) THEN JsonLoads(NormalizeJson(text)) ELSE JsonError
        blade == FindIter(RX_BladePair, text)
    IN  CASE json.ok -> json.value.v
          [] LooksLikeObject(text) /\ em = "core" -> EmptyDict
          [] em \in BladeParsers /\ Matched(SearchFrom(RX_PhpArray, text, 1)) ->
                ExtractPhpArrayParams(PhpArrayArgument(text))
          [] em \in BladeParsers /\ blade # <<>> -> BladePairs(blade, text, EmptyDict)
          [] OTHER -> KeyValuePairs(FindIter(RX_KeyValue, text), text, EmptyDict)

\* laravel.py 238: html.unescape(raw.strip()); django.py 271: params_str.strip()
Cleaned(em, text) ==
    IF em \in LiteralParsers THEN StrStrip(text) ELSE HtmlUnescape(StrStrip(text))

\* laravel.py 235: not raw; django.py 271-272: params_str is stripped first
IsBlank(em, text) ==
    IF em \in LiteralParsers THEN StrStrip(text) = <<>> ELSE text = <<>>

\* the key=value grammar: laravel.py 270, django.py 292
KeyValueGrammar(em) ==
    IF em \in LiteralParsers THEN RX_SpacedKeyValue ELSE RX_KeyValue

\* laravel.py 235-236, django.py 272-273: if not raw: return {}
ParseBlank ==
    /\ pc = "call"
    /\ IsBlank(emitter, raw)
    /\ params' = EmptyDict
    /\ pc' = "returned"
    /\ UNCHANGED folder_vars
    /\ UNCHANGED <<emitter, params_type, params_raw, raw, log>>
    /\ UNCHANGED <<page, content, fragments, frag_done>>
    /\ UNCHANGED restructure_vars
    /\ UNCHANGED run_vars

\* laravel.py 238: raw = html.unescape(raw.strip()); django.py 271
ParseUnescape ==
    /\ pc = "call"
    /\ ~IsBlank(emitter, raw)
    /\ raw' = Cleaned(emitter, raw)
    /\ pc' = "json"
    /\ UNCHANGED folder_vars
    /\ UNCHANGED <<emitter, params_type, params_raw, params, log>>
    /\ UNCHANGED <<page, content, fragments, frag_done>>
    /\ UNCHANGED restructure_vars
    /\ UNCHANGED run_vars

\* laravel.py 240: the blob is not brace-delimited, the JSON grammar is skipped
NotAnObject ==
    /\ pc = "json"
    /\ ~LooksLikeObject(raw)
    /\ pc' = NextGrammar(emitter)
    /\ UNCHANGED folder_vars
    /\ UNCHANGED <<emitter, params_type, params_raw, raw, params, log>>
    /\ UNCHANGED <<page, content, fragments, frag_done>>
    /\ UNCHANGED restructure_vars
    /\ UNCHANGED run_vars

\* laravel.py 241-244: return json.loads(cleaned)
ReturnJson ==
    /\ pc = "json"
    /\ emitter \notin LiteralParsers
    /\ LooksLikeObject(raw)
    /\ LET json == JsonLoads(NormalizeJson(raw))
       IN  /\ json.ok
           /\ params' = json.value.v
    /\ pc' = "returned"
    /\ UNCHANGED folder_vars
    /\ UNCHANGED <<emitter, params_type, params_raw, raw, log>>
    /\ UNCHANGED <<page, content, fragments, frag_done>>
    /\ UNCHANGED restructure_vars
    /\ UNCHANGED run_vars

\* laravel.py 245-246 and ror.py 211-212: the JSONDecodeError is logged and
\* the next grammar is tried; core.py 197-198: {} is returned
JsonDecodeError ==
    /\ pc = "json"
    /\ emitter \notin LiteralParsers
    /\ LooksLikeObject(raw)
    /\ ~JsonLoads(NormalizeJson(raw)).ok
    /\ IF emitter = "core"
       THEN /\ params' = EmptyDict
            /\ pc' = "returned"
            /\ log' = log
       ELSE /\ params' = params
            /\ pc' = NextGrammar(emitter)
            /\ log' = Append(log, "warning")
    /\ UNCHANGED folder_vars
    /\ UNCHANGED <<emitter, params_type, params_raw, raw>>
    /\ UNCHANGED <<page, content, fragments, frag_done>>
    /\ UNCHANGED restructure_vars
    /\ UNCHANGED run_vars

\* django.py 279-286 (fastapi.py 278-285, flask.py 259-266 are the same
\* lines): return ast.literal_eval(s), a dict or a set
ReturnLiteral ==
    /\ pc = "json"
    /\ emitter \in LiteralParsers
    /\ LooksLikeObject(raw)
    /\ LET literal == LiteralEval(PythonLiteralText(raw))
       IN  /\ literal.ok
           /\ params' = literal.value.v
           /\ params_type' = literal.value.t
    /\ pc' = "returned"
    /\ UNCHANGED folder_vars
    /\ UNCHANGED <<emitter, params_raw, raw, log>>
    /\ UNCHANGED <<page, content, fragments, frag_done>>
    /\ UNCHANGED restructure_vars
    /\ UNCHANGED run_vars

\* django.py 287-289: any exception is logged and {} is returned
LiteralFails ==
    /\ pc = "json"
    /\ emitter \in LiteralParsers
    /\ LooksLikeObject(raw)
    /\ ~LiteralEval(PythonLiteralText(raw)).ok
    /\ params' = EmptyDict
    /\ log' = Append(log, "warning")
    /\ pc' = "returned"
    /\ UNCHANGED folder_vars
    /\ UNCHANGED <<emitter, params_type, params_raw, raw>>
    /\ UNCHANGED <<page, content, fragments, frag_done>>
    /\ UNCHANGED restructure_vars
    /\ UNCHANGED run_vars

\* laravel.py 248-251: PHP array(...) style
TryPhpArray ==
    /\ pc = "array"
    /\ IF Matched(SearchFrom(RX_PhpArray, raw, 1))
       THEN /\ params' = ExtractPhpArrayParams(PhpArrayArgument(raw))
            /\ pc' = "returned"
       ELSE /\ params' = params
            /\ pc' = "blade"
    /\ UNCHANGED folder_vars
    /\ UNCHANGED <<emitter, params_type, params_raw, raw, log>>
    /\ UNCHANGED <<page, content, fragments, frag_done>>
    /\ UNCHANGED restructure_vars
    /\ UNCHANGED run_vars

\* laravel.py 253-267: Blade array ['key' => 'value'] style
TryBladeArray ==
    /\ pc = "blade"
    /\ LET blade_matches == FindIter(RX_BladePair, raw)
       IN  IF blade_matches # <<>>
           THEN /\ params' = BladePairs(blade_matches, raw, EmptyDict)
                /\ pc' = "returned"
           ELSE /\ params' = params
                /\ pc' = "kv"
    /\ UNCHANGED folder_vars
    /\ UNCHANGED <<emitter, params_type, params_raw, raw, log>>
    /\ UNCHANGED <<page, content, fragments, frag_done>>
    /\ UNCHANGED restructure_vars
    /\ UNCHANGED run_vars

\* laravel.py 269-273, django.py 291-293: key="value" pairs, {} when there
\* is none
TryKeyValue ==
    /\ pc = "kv"
    /\ params' = KeyValuePairs(FindIter(KeyValueGrammar(emitter), raw), raw, EmptyDict)
    /\ pc' = "returned"
    /\ UNCHANGED folder_vars
    /\ UNCHANGED <<emitter, params_type, params_raw, raw, log>>
    /\ UNCHANGED <<page, content, fragments, frag_done>>
    /\ UNCHANGED restructure_vars
    /\ UNCHANGED run_vars

\* the blobs handed to the parsers: up to MaxPairs pairs between the
\* delimiters of one syntax
Pair_json == <<"\"", "a", "\"", ":", " ", "\"", "x", "\"">>
Pair_escaped == <<"&", "q", "u", "o", "t", ";", "q", "&", "q", "u", "o", "t", ";", ":", " ", "&", "q", "u", "o", "t", ";", "y", "&", "q", "u", "o", "t", ";">>
Pair_bare == <<"t", "i", "t", "l", "e", ":", " ", "\"", "H", "o", "m", "e", "\"">>
Pair_bool == <<"a", "c", "t", "i", "v", "e", ":", " ", "t", "r", "u", "e">>
Pair_word == <<"w", ":", " ", "\"", "t", "r", "u", "e", "\"">>
Pair_arrow == <<"'", "k", "'", " ", "=", ">", " ", "'", "v", "'">>
Pair_number == <<"'", "n", "'", " ", "=", ">", " ", "7">>
Pair_kv == <<"c", "=", "\"", "d", "\"">>
Pair_arrow_text == <<"\"", "t", "\"", ":", " ", "\"", "'", "m", "'", " ", "=", ">", " ", "'", "w", "'", "\"">>
Pair_kv_text == <<"\"", "u", "\"", ":", " ", "\"", "e", "=", "'", "f", "'", "\"">>
Pair_colon_text == <<"\"", "s", "\"", ":", " ", "\"", "a", ",", " ", "b", ":", " ", "c", "\"">>

ParamPairs ==
    {Pair_json, Pair_escaped, Pair_bare, Pair_bool, Pair_arrow, Pair_number,
     Pair_kv, Pair_arrow_text, Pair_kv_text, Pair_colon_text}

ParamDelimiters ==
    { <<<<"{">>, <<"}">>>>, <<<<"{", " ">>, <<",", " ", "}">>>>, <<<<"a", "r", "r", "a", "y", "(">>, <<")">>>>, <<<<"[">>, <<"]">>>>, <<<<>>, <<>>>> }

PairRuns == UNION {[1..n -> ParamPairs] : n \in 1..MaxPairs}

ParamBlobs ==
    {d[1] \o StrJoin(run, <<",", " ">>) \o d[2] : d \in ParamDelimiters, run \in PairRuns}
    \cup {<<>>, <<" ">>, <<"{">>, <<"{", "}">>, <<"{", "\"", "a", "\"", "}">>,
          <<"{">> \o Pair_word \o <<"}">>}

InitParams ==
    /\ NoFolders
    /\ Idle
    /\ log = <<>>
    /\ NoRun
    /\ pc = "call"
    /\ emitter \in ParamParsers
    /\ params_raw \in ParamBlobs
    /\ raw = params_raw
    /\ params = EmptyDict
    /\ params_type = "dict"
    /\ page = <<>>
    /\ content = <<>>
    /\ fragments = <<>>
    /\ frag_done = 0

NextParams ==
    \/ ParseBlank
    \/ ParseUnescape
    \/ NotAnObject
    \/ ReturnJson
    \/ JsonDecodeError
    \/ ReturnLiteral
    \/ LiteralFails
    \/ TryPhpArray
    \/ TryBladeArray
    \/ TryKeyValue

SpecParams == InitParams /\ [][NextParams]_vars

----------------------------------------------------------------------------
(* _replace_all_includes_with_blade / _erb / _razor *)

\* str(value) of a parameter value
StrOf(value) ==
    CASE value.t = "str" -> value.v
      [] value.t = "int" -> value.v
      [] value.t = "bool" -> value.v
      [] value.t = "NoneType" -> value.v

\* json.dumps(value) of a parameter value that is no str and no bool
JsonDumps(value) ==
    CASE value.t = "int" -> value.v
      [] value.t = "NoneType" -> <<"n", "u", "l", "l">>

\* s.replace(old, new) for a one-character old and a text new
RECURSIVE ReplaceCharBy(_, _, _)
ReplaceCharBy(s, old, new) ==
    IF s = <<>> THEN <<>>
    ELSE (IF Head(s) = old THEN new ELSE <<Head(s)>>) \o ReplaceCharBy(Tail(s), old, new)

\* LaravelConverter._format_blade_params
FormatBladeParams(data) ==
    LET formatted ==
            [k \in 1..Len(data) |->
                LET key == data[k][1]
                    value == data[k][2]
                IN  CASE value.t = "str" ->
                            <<"'">> \o key \o <<"'", " ", "=", ">", " ", "'">> \o ReplaceCharBy(value.v, "'", <<"\\", "'">>) \o <<"'">>
                      [] value.t = "bool" ->
                            <<"'">> \o key \o <<"'", " ", "=", ">", " ">> \o StrLower(value.v)
                      [] OTHER ->
                            <<"'">> \o key \o <<"'", " ", "=", ">", " ">> \o JsonDumps(value)]
    IN  StrJoin(formatted, <<",", " ">>)

\* ror.py 267-269: the pairs of the Ruby hash
FormatRubyParams(data) ==
    LET param_pairs ==
            [k \in 1..Len(data) |->
                LET key == data[k][1]
                    value == data[k][2]
                IN  IF value.t = "str"
                    THEN key \o <<":", " ", "'">> \o value.v \o <<"'">>
                    ELSE key \o <<":", " ">> \o StrLower(StrOf(value))]
    IN  StrJoin(param_pairs, <<",", " ">>)

\* core.py 179: the anonymous objects of the Razor call
FormatRazorArgs(data) ==
    LET args ==
            [k \in 1..Len(data) |->
                <<"n", "e", "w", " ", "{", " ">> \o data[k][1] \o <<" ", "=", " ", "\"">> \o StrOf(data[k][2]) \o <<"\"", " ", "}">>]
    IN  StrJoin(args, <<",", " ">>)

\* ^(\.\/|\.\.\/)+
RX_DotPrefix == Plus(Grp("1", Alt(Lit(<<".", "/">>), Lit(<<".", ".", "/">>))))

\* Path(s).name
PathName(s) ==
    LET path == ParsePath(s)
    IN  IF path = <<>> THEN <<>> ELSE path[Len(path)]

\* laravel.py 340-341: re.sub(r"^(\.\/|\.\.\/)+", "", path), then
\* Path(clean_path).with_suffix("").as_posix()
NormalizedPath(path) ==
    LET m == MatchAt(RX_DotPrefix, path, 1)
        stripped == IF Matched(m) THEN Drop(path, m.end) ELSE path
    IN  AsPosix(WithSuffix(ParsePath(stripped), <<>>))

HasSlash(s) == \E k \in 1..Len(s) : s[k] = "/"

PartialsPrefix == <<"p", "a", "r", "t", "i", "a", "l", "s", "/">>

\* the folder the emitter keeps its partials in
SharedFolder(em) ==
    CASE em = "laravel" -> <<"s", "h", "a", "r", "e", "d", "/", "p", "a", "r", "t", "i", "a", "l", "s", "/">>
      [] em = "ror" -> <<"l", "a", "y", "o", "u", "t", "s", "/", "p", "a", "r", "t", "i", "a", "l", "s", "/">>
      [] em = "core" -> <<"S", "h", "a", "r", "e", "d", "/", "P", "a", "r", "t", "i", "a", "l", "s", "/">>

\* laravel.py 343-351, ror.py 250-257, core.py 171-175
WithPartialsFolder(em, clean_path) ==
    IF StartsWith(clean_path, PartialsPrefix)
    THEN ReplaceFirst(clean_path, PartialsPrefix, SharedFolder(em))
    ELSE IF ~HasSlash(clean_path) THEN SharedFolder(em) \o clean_path
    ELSE clean_path

\* ror.py 247: "/".join(apply_casing(p, "snake") for p in clean_path.split("/"))
SnakeSegments(clean_path) ==
    LET segs == StrSplit(clean_path, "/")
    IN  StrJoin([k \in 1..Len(segs) |-> apply_casing(segs[k], "snake")], Slash)

\* the path the emitter renders for a fragment
CleanPath(em, path) ==
    CASE em = "laravel" ->
            ReplaceChar(WithPartialsFolder(em, NormalizedPath(path)), "/", ".")
      [] em = "ror" -> WithPartialsFolder(em, SnakeSegments(NormalizedPath(path)))
      [] em = "core" -> WithPartialsFolder(em, NormalizedPath(path))

\* the names an emitter skips: laravel.py 357, ror.py 260; core.py has no
\* such test
TitleNames(em) ==
    CASE em = "laravel" -> {<<"t", "i", "t", "l", "e", "-", "m", "e", "t", "a">>, <<"a", "p", "p", "-", "m", "e", "t", "a", "-", "t", "i", "t", "l", "e">>}
      [] em = "ror" -> {<<"_", "t", "i", "t", "l", "e", "_", "m", "e", "t", "a">>, <<"_", "a", "p", "p", "_", "m", "e", "t", "a", "_", "t", "i", "t", "l", "e">>}
      [] em = "core" -> {}

\* Path(clean_path).name.lower() in {...}
IsTitleInclude(em, clean_path) == StrLower(PathName(clean_path)) \in TitleNames(em)

\* laravel.py 361-366, ror.py 264-272, core.py 178-180
Replacement(em, clean_path, data) ==
    CASE em = "laravel" ->
            IF data # EmptyDict
            THEN <<"@", "i", "n", "c", "l", "u", "d", "e", "(", "'">> \o clean_path \o <<"'", ",", " ", "[">> \o FormatBladeParams(data) \o <<"]", ")">>
            ELSE <<"@", "i", "n", "c", "l", "u", "d", "e", "(", "'">> \o clean_path \o <<"'", ")">>
      [] em = "ror" ->
            IF data # EmptyDict
            THEN <<"<", "%", "=", " ", "r", "e", "n", "d", "e", "r", " ", "'">> \o clean_path \o <<"'", ",", " ">> \o FormatRubyParams(data) \o <<" ", "%", ">">>
            ELSE <<"<", "%", "=", " ", "r", "e", "n", "d", "e", "r", " ", "'">> \o clean_path \o <<"'", " ", "%", ">">>
      [] em = "core" ->
            <<"@", "a", "w", "a", "i", "t", " ", "H", "t", "m", "l", ".", "P", "a", "r", "t", "i", "a", "l", "A", "s", "y", "n", "c", "(", "\"", "~", "/">> \o clean_path \o <<".", "c", "s", "h", "t", "m", "l", "\"">>
            \o (IF data # EmptyDict THEN <<",", " ">> \o FormatRazorArgs(data) ELSE <<>>)
            \o <<")">>

\* the include directives of the source pages
Path_title == <<"t", "i", "t", "l", "e", "-", "m", "e", "t", "a">>
Path_title_html == <<"p", "a", "r", "t", "i", "a", "l", "s", "/", "t", "i", "t", "l", "e", "-", "m", "e", "t", "a", ".", "h", "t", "m", "l">>
Path_app_title == <<".", "/", "p", "a", "r", "t", "i", "a", "l", "s", "/", "a", "p", "p", "-", "m", "e", "t", "a", "-", "t", "i", "t", "l", "e", ".", "h", "t", "m", "l">>
Path_underscored == <<".", ".", "/", "p", "a", "r", "t", "i", "a", "l", "s", "/", "_", "t", "i", "t", "l", "e", "-", "m", "e", "t", "a", ".", "h", "t", "m", "l">>
Path_footer == <<"p", "a", "r", "t", "i", "a", "l", "s", "/", "f", "o", "o", "t", "e", "r", ".", "h", "t", "m", "l">>
Path_topbar == <<"l", "a", "y", "o", "u", "t", "s", "/", "t", "o", "p", "b", "a", "r">>

IncludePaths ==
    {Path_title, Path_title_html, Path_app_title, Path_underscored, Path_footer,
     Path_topbar}

TitleParams == <<"{", "\"", "t", "i", "t", "l", "e", "\"", ":", " ", "\"", "H", "o", "m", "e", "\"", "}">>

\* @@include('path', {...}), @@include('path') and {{> path}}
Directives ==
    {[full |-> <<"@", "@", "i", "n", "c", "l", "u", "d", "e", "(", "'">> \o p \o <<"'", ",", " ">> \o TitleParams \o <<")">>, path |-> p,
      params |-> TitleParams] : p \in IncludePaths}
    \cup {[full |-> <<"@", "@", "i", "n", "c", "l", "u", "d", "e", "(", "'">> \o p \o <<"'", ")">>, path |-> p, params |-> <<>>] :
            p \in IncludePaths}
    \cup {[full |-> <<"{", "{", ">", " ">> \o p \o <<"}", "}">>, path |-> p, params |-> <<>>] : p \in IncludePaths}

Markup == <<"<", "h", "1", ">", "H", "o", "m", "e", "<", "/", "h", "1", ">">>

\* a page is its markup followed by up to MaxIncludes directives; the text is
\* kept as the sequence of these pieces
DirectiveRuns == UNION {[1..n -> Directives] : n \in 1..MaxIncludes}

Pages == {<<Markup>> \o [k \in 1..Len(run) |-> run[k].full] : run \in DirectiveRuns}

\* the matches of the registered include patterns in the text: one fragment
\* for every directive, in the order of the text
IsDirective(piece) == \E d \in Directives : d.full = piece
DirectiveOf(piece) == CHOOSE d \in Directives : d.full = piece

ExtractFragments(text) ==
    LET found == SelectSeq(text, IsDirective)
    IN  [k \in 1..Len(found) |-> DirectiveOf(found[k])]

\* content.replace(full, replacement) on the pieces of the text
ReplaceAll(text, full, replacement) ==
    [k \in 1..Len(text) |-> IF text[k] = full THEN replacement ELSE text[k]]

IncludeEmitters == {"laravel", "ror", "core"}

\* laravel.py 323-333, ror.py 225-237, core.py 155-163: the fragments are
\* collected
CollectFragments ==
    /\ pc = "page"
    /\ fragments' = ExtractFragments(content)
    /\ frag_done' = 0
    /\ pc' = "rewrite"
    /\ UNCHANGED folder_vars
    /\ UNCHANGED <<emitter, params_type, params_raw, raw, params, page, content, log>>
    /\ UNCHANGED restructure_vars
    /\ UNCHANGED run_vars

\* laravel.py 357-359, ror.py 260-262: a title include is replaced by the
\* empty string
StripTitleInclude ==
    /\ pc = "rewrite"
    /\ frag_done < Len(fragments)
    /\ LET frag == fragments[frag_done + 1]
           clean_path == CleanPath(emitter, frag.path)
       IN  /\ IsTitleInclude(emitter, clean_path)
           /\ content' = ReplaceAll(content, frag.full, <<>>)
    /\ frag_done' = frag_done + 1
    /\ UNCHANGED folder_vars
    /\ UNCHANGED <<emitter, params_type, params_raw, raw, params, page, fragments, log, pc>>
    /\ UNCHANGED restructure_vars
    /\ UNCHANGED run_vars

\* laravel.py 361-368, ror.py 264-274, core.py 178-181: the fragment is
\* replaced by the emitter's partial call
RewriteInclude ==
    /\ pc = "rewrite"
    /\ frag_done < Len(fragments)
    /\ LET frag == fragments[frag_done + 1]
           clean_path == CleanPath(emitter, frag.path)
           data == ParseIncludeParams(emitter, frag.params)
       IN  /\ ~IsTitleInclude(emitter, clean_path)
           /\ content' = ReplaceAll(content, frag.full, Replacement(emitter, clean_path, data))
    /\ frag_done' = frag_done + 1
    /\ UNCHANGED folder_vars
    /\ UNCHANGED <<emitter, params_type, params_raw, raw, params, page, fragments, log, pc>>
    /\ UNCHANGED restructure_vars
    /\ UNCHANGED run_vars

\* laravel.py 370: return content
ReturnContent ==
    /\ pc = "rewrite"
    /\ frag_done = Len(fragments)
    /\ pc' = "rewritten"
    /\ UNCHANGED folder_vars
    /\ UNCHANGED <<emitter, params_type, params_raw, raw, params, page, content, fragments,
                   frag_done, log>>
    /\ UNCHANGED restructure_vars
    /\ UNCHANGED run_vars

InitIncludes ==
    /\ NoFolders
    /\ Idle
    /\ log = <<>>
    /\ NoRun
    /\ pc = "page"
    /\ emitter \in IncludeEmitters
    /\ params_raw = <<>>
    /\ raw = <<>>
    /\ params = EmptyDict
    /\ params_type = "dict"
    /\ page \in Pages
    /\ content = page
    /\ fragments = <<>>
    /\ frag_done = 0

NextIncludes ==
    \/ CollectFragments
    \/ StripTitleInclude
    \/ RewriteInclude
    \/ ReturnContent

SpecIncludes == InitIncludes /\ [][NextIncludes]_vars

----------------------------------------------------------------------------
(* extract_fragments and the alternate patterns of the emitters *)

\* a piece of a pattern source with the expression it compiles to
Tok(src, rx) == [src |-> src, rx |-> rx]

\* config.import_patterns, label -> pattern, in the order of the resource
\* file: the @@include(path, params) syntax and the {{> path params}} syntax,
\* each with the named groups path and params
ImportPatterns ==
    << [label |-> <<"@", "@">>,
        tokens |-> << Tok(<<"@", "@", "i", "n", "c", "l", "u", "d", "e", "\\", "(">>, Lit(<<"@", "@", "i", "n", "c", "l", "u", "d", "e", "(">>)),
                      Tok(<<"\\", "s", "*">>, Star(Ch(SpaceChars))),
                      Tok(<<"[", "'", "\"", "]">>, Ch(Quote)),
                      Tok(<<"(", "?", "P", "<", "p", "a", "t", "h", ">", "[", "^", "'", "\"", "]", "+", ")">>, Grp("path", Plus(NotCh(Quote)))),
                      Tok(<<"[", "'", "\"", "]">>, Ch(Quote)),
                      Tok(<<"(", "?", ":", "\\", "s", "*", ",", "\\", "s", "*", "(", "?", "P", "<", "p", "a", "r", "a", "m", "s", ">", "\\", "{", "[", "\\", "s", "\\", "S", "]", "*", "\\", "}", ")", ")", "?">>,
                          Opt(Cat(<<Star(Ch(SpaceChars)), Ch({","}), Star(Ch(SpaceChars)),
                                    Grp("params", Cat(<<Ch({"{"}), Star(AnyChar), Ch({"}"})>>))>>))),
                      Tok(<<"\\", "s", "*", "\\", ")">>, Cat(<<Star(Ch(SpaceChars)), Ch({")"})>>)) >>],
       [label |-> <<"{", "{", ">">>,
        tokens |-> << Tok(<<"\\", "{", "\\", "{">>, Lit(<<"{", "{">>)),
                      Tok(<<"\\", ">">>, Ch({">"})),
                      Tok(<<"\\", "s", "*">>, Star(Ch(SpaceChars))),
                      Tok(<<"(", "?", "P", "<", "p", "a", "t", "h", ">", "[", "^", "\\", "s", "}", "]", "+", ")">>, Grp("path", Plus(NotCh(SpaceChars \cup {"}"})))),
                      Tok(<<"(", "?", ":", "\\", "s", "+", "(", "?", "P", "<", "p", "a", "r", "a", "m", "s", ">", "[", "^", "}", "]", "+", ")", ")", "?">>,
                          Opt(Cat(<<Plus(Ch(SpaceChars)),
                                    Grp("params", Plus(NotCh({"}"})))>>))),
                      Tok(<<"\\", "s", "*", "\\", "}", "\\", "}">>, Cat(<<Star(Ch(SpaceChars)), Lit(<<"}", "}">>)>>)) >>] >>

\* pattern.pattern
PatternText(tokens) == Joined([k \in 1..Len(tokens) |-> tokens[k].src], 1, Len(tokens))

\* re.compile(source)
Compiled(tokens) == Cat([k \in 1..Len(tokens) |-> tokens[k].rx])

\* laravel.py 326: pattern.pattern.replace(r"\>\s*", r"(?:>|&gt;)\s*")
AlternatePattern(tokens) ==
    [k \in 1..Len(tokens) |->
        IF k < Len(tokens) /\ tokens[k].src = <<"\\", ">">> /\ tokens[k + 1].src = <<"\\", "s", "*">>
        THEN Tok(<<"(", "?", ":", ">", "|", "&", "g", "t", ";", ")">>, Alt(Ch({">"}), Lit(<<"&", "g", "t", ";">>)))
        ELSE tokens[k]]

\* extract_fragments(content, pattern, type_label)
extract_fragments(text, pattern, type_label) ==
    LET matches == FindIter(pattern, text)
    IN  [k \in 1..Len(matches) |->
            [full   |-> SubSeq(text, matches[k].start, matches[k].end - 1),
             path   |-> StrStrip(Group(matches[k], text, "path")),
             params |-> StrStrip(Group(matches[k], text, "params")),
             type   |-> type_label]]

\* laravel.py 324-333: the matches of the alternate pattern, path as matched
AlternateFragments(text, pattern, type_label) ==
    LET matches == FindIter(pattern, text)
    IN  [k \in 1..Len(matches) |->
            [full   |-> SubSeq(text, matches[k].start, matches[k].end - 1),
             path   |-> Group(matches[k], text, "path"),
             params |-> Group(matches[k], text, "params"),
             type   |-> type_label]]

\* the emitters whose fragment collection is modelled
FragmentEmitters == {"php", "laravel", "django"}

\* the include directives: an opening, a path, parameters or none
HbsOpenings == {<<"{", "{", ">", " ">>, <<"{", "{", ">">>, <<"{", "{", "&", "g", "t", ";", " ">>, <<"{", "{", "&", "g", "t", ";">>}
HbsPaths == {<<"p", "a", "r", "t", "i", "a", "l", "s", "/", "f", "o", "o", "t", "e", "r">>, <<"l", "a", "y", "o", "u", "t", "s", "/", "t", "o", "p", "b", "a", "r">>, <<"t", "i", "t", "l", "e", "-", "m", "e", "t", "a">>}
HbsParams == {<<>>, <<" ", "t", "i", "t", "l", "e", "=", "\"", "H", "o", "m", "e", "\"">>, <<" ", "a", "=", "\"", "x", "\"", " ", "c", "=", "\"", "d", "\"">>}
HbsDirectives ==
    {[full |-> o \o p \o q \o <<"}", "}">>, path |-> p, escaped |-> Len(o) > 4] :
        o \in HbsOpenings, p \in HbsPaths, q \in HbsParams}

AtPaths == {<<"p", "a", "r", "t", "i", "a", "l", "s", "/", "f", "o", "o", "t", "e", "r", ".", "h", "t", "m", "l">>, <<".", "/", "p", "a", "r", "t", "i", "a", "l", "s", "/", "m", "e", "n", "u", ".", "h", "t", "m", "l">>}
AtParams == {<<>>, <<",", " ", "{", "\"", "t", "i", "t", "l", "e", "\"", ":", " ", "\"", "H", "o", "m", "e", "\"", "}">>}
AtDirectives ==
    {[full |-> <<"@", "@", "i", "n", "c", "l", "u", "d", "e", "(", "'">> \o p \o <<"'">> \o q \o <<")">>, path |-> p, escaped |-> FALSE] :
        p \in AtPaths, q \in AtParams}

IncludeDirectives == HbsDirectives \cup AtDirectives

\* a page with one directive
PageWith(d) == Markup \o <<"\n">> \o d.full \o <<"\n">> \o Markup

\* php.py 39-41: fragments += extract_fragments(content, pattern, label)
CollectShared ==
    /\ pc = "collect"
    /\ emitter = "php"
    /\ fragments' =
            Joined([k \in 1..Len(ImportPatterns) |->
                        extract_fragments(content, Compiled(ImportPatterns[k].tokens),
                                          ImportPatterns[k].label)],
                   1, Len(ImportPatterns))
    /\ pc' = "collected"
    /\ UNCHANGED folder_vars
    /\ UNCHANGED <<emitter, params_type, params_raw, raw, params, page, content, frag_done, log>>
    /\ UNCHANGED restructure_vars
    /\ UNCHANGED run_vars

\* laravel.py 323-333, django.py 211-229: the alternate pattern of every
\* entry is scanned; django.py strips path and params
CollectAlternate ==
    /\ pc = "collect"
    /\ emitter \in FragmentEmitters \ {"php"}
    /\ fragments' =
            Joined([k \in 1..Len(ImportPatterns) |->
                        LET alt_pattern == Compiled(AlternatePattern(ImportPatterns[k].tokens))
                        IN  IF emitter = "django"
                            THEN extract_fragments(content, alt_pattern, ImportPatterns[k].label)
                            ELSE AlternateFragments(content, alt_pattern, ImportPatterns[k].label)],
                   1, Len(ImportPatterns))
    /\ pc' = "collected"
    /\ UNCHANGED folder_vars
    /\ UNCHANGED <<emitter, params_type, params_raw, raw, params, page, content, frag_done, log>>
    /\ UNCHANGED restructure_vars
    /\ UNCHANGED run_vars

InitFragments ==
    /\ NoFolders
    /\ Idle
    /\ log = <<>>
    /\ NoRun
    /\ pc = "collect"
    /\ emitter \in FragmentEmitters
    /\ params_raw = <<>>
    /\ raw = <<>>
    /\ params = EmptyDict
    /\ params_type = "dict"
    /\ page \in {PageWith(d) : d \in IncludeDirectives}
    /\ content = page
    /\ fragments = <<>>
    /\ frag_done = 0

NextFragments ==
    \/ CollectShared
    \/ CollectAlternate

SpecFragments == InitFragments /\ [][NextFragments]_vars

----------------------------------------------------------------------------
(* transpilex/main.py, cli/prompts.py and the create_project of the emitters *)

\* config/base.py
SUPPORTED_FRAMEWORKS ==
    << <<"P", "H", "P">>, <<"L", "a", "r", "a", "v", "e", "l">>, <<"D", "j", "a", "n", "g", "o">>, <<"C", "o", "r", "e">>, <<"M", "V", "C">>, <<"R", "o", "R">>, <<"C", "a", "k", "e", "P", "H", "P">>,
       <<"C", "o", "d", "e", "i", "g", "n", "i", "t", "e", "r">>, <<"N", "o", "d", "e">>, <<"F", "l", "a", "s", "k">>, <<"S", "y", "m", "f", "o", "n", "y">>, <<"S", "p", "r", "i", "n", "g">>, <<"B", "l", "a", "z", "o", "r">> >>

SUPPORTED_PIPELINES == << <<"G", "u", "l", "p">>, <<"V", "i", "t", "e">> >>

VITE_ONLY == << <<"L", "a", "r", "a", "v", "e", "l">> >>

\* x in a Python list
InList(x, list) == \E k \in 1..Len(list) : list[k] = x

\* the frameworks that have a branch in the if-chain that fills
\* project_assets_path (prompts.py 175-264 and 420-502)
ConfiguredFrameworks ==
    { <<"p", "h", "p">>, <<"l", "a", "r", "a", "v", "e", "l">>, <<"d", "j", "a", "n", "g", "o">>, <<"c", "o", "r", "e">>, <<"m", "v", "c">>, <<"r", "o", "r">>, <<"c", "a", "k", "e", "p", "h", "p">>,
      <<"c", "o", "d", "e", "i", "g", "n", "i", "t", "e", "r">>, <<"n", "o", "d", "e">>, <<"f", "l", "a", "s", "k">>, <<"s", "y", "m", "f", "o", "n", "y">>, <<"s", "p", "r", "i", "n", "g">> }

\* the longest run of files of a pages folder
MaxFiles == 3

\* main 73-74: one of the six arguments is given
is_cli_mode(args) ==
    args.framework # <<>> \/ args.frontend_pipeline # <<>> \/ args.others

\* process_cli_config: "ValueError", "TypeError" (Path / None for a
\* framework without a branch) or "config"
ProcessCliConfig(args, exists) ==
    LET framework == StrLower(args.framework)
        frontend_pipeline == StrLower(args.frontend_pipeline)
    IN  IF args.framework = <<>> \/ args.frontend_pipeline = <<>> \/ ~args.others
        THEN "ValueError"
        ELSE IF InList(framework, VITE_ONLY) /\ frontend_pipeline # <<"v", "i", "t", "e">>
        THEN "ValueError"
        ELSE IF /\ ~InList(framework, VITE_ONLY)
                /\ InList(framework, SUPPORTED_FRAMEWORKS)
                /\ ~InList(frontend_pipeline, SUPPORTED_PIPELINES)
        THEN "ValueError"
        ELSE IF exists THEN "ValueError"
        ELSE IF framework \notin ConfiguredFrameworks THEN "TypeError"
        ELSE "config"

\* the class whose create_project the constructor called by main runs;
\* NodeConverter runs none unless the pipeline is gulp
ConverterOf(config) ==
    LET gulp == config.frontend_pipeline = <<"g", "u", "l", "p">>
    IN  CASE config.framework = <<"p", "h", "p">> ->
                IF gulp THEN "PHPGulpConverter" ELSE "PHPViteConverter"
          [] config.framework = <<"l", "a", "r", "a", "v", "e", "l">> -> "LaravelConverter"
          [] config.framework = <<"d", "j", "a", "n", "g", "o">> ->
                IF gulp THEN "DjangoGulpConverter" ELSE "DjangoViteConverter"
          [] config.framework = <<"s", "p", "r", "i", "n", "g">> ->
                IF gulp THEN "SpringGulpConverter" ELSE "SpringViteConverter"
          [] config.framework = <<"n", "o", "d", "e">> ->
                IF gulp THEN "NodeGulpConverter" ELSE "none"
          [] OTHER -> "none"

\* the frameworks whose create_project is followed here
RunFrameworks == { <<"p", "h", "p">>, <<"l", "a", "r", "a", "v", "e", "l">>, <<"d", "j", "a", "n", "g", "o">>, <<"s", "p", "r", "i", "n", "g">>, <<"n", "o", "d", "e">> }

Cookiecutters ==
    {"DjangoGulpConverter", "DjangoViteConverter",
     "SpringGulpConverter", "SpringViteConverter"}

\* create_project starts with a child process or a template generator
Scaffolds(conv) ==
    conv \in Cookiecutters \cup {"LaravelConverter", "PHPViteConverter"}

\* the except clause around the scaffolding catches the failure: a bare
\* except in the cookiecutter emitters, CalledProcessError in the others
ScaffoldCatches(conv, failure) ==
    conv \in Cookiecutters \/ failure = "CalledProcessError"

\* what create_project still runs once the scaffolding failure is caught:
\* init_create_project returns to the create_project of the gulp variant
AfterFailedScaffold(conv) ==
    IF conv \in {"DjangoGulpConverter", "SpringGulpConverter"}
    THEN <<"plugins_config", "asset_paths">>
    ELSE <<>>

\* the steps of create_project between the scaffolding and _convert
StepsBefore(conv) ==
    IF conv = "NodeGulpConverter" THEN <<"pages", "routes">> ELSE <<"pages">>

\* the steps of create_project after _convert
StepsAfter(conv) ==
    CASE conv = "LaravelConverter" ->
            <<"variables", "assets", "package_json", "vite_config", "routes">>
      [] conv = "PHPViteConverter" ->
            <<"variables", "assets", "package_json", "routes">>
      [] conv = "PHPGulpConverter" ->
            <<"variables", "assets", "gulpfile", "package_json">>
      [] conv = "NodeGulpConverter" ->
            <<"variables", "assets", "gulpfile", "package_json">>
      [] conv \in {"DjangoViteConverter"} ->
            <<"variables", "assets", "package_json">>
      [] conv = "DjangoGulpConverter" ->
            <<"variables", "assets", "package_json", "plugins_config", "asset_paths">>
      [] conv = "SpringViteConverter" ->
            <<"controllers", "variables", "assets", "package_json">>
      [] conv = "SpringGulpConverter" ->
            <<"controllers", "variables", "assets", "package_json",
              "plugins_config", "asset_paths">>

\* what happens to a file of the loop of _convert: "converted", "skipped"
\* (continue without a log line), "warned" (Log.warning, next file),
\* "errored" (Log.error, next file) or "raised" (the exception leaves
\* _convert): Spring wraps the whole iteration, Django guards neither the
\* read nor the write, PHP guards both, Laravel and Node only the read
FileOutcome(conv, kind) ==
    CASE kind = "ok" -> "converted"
      [] kind # "ok" /\ conv \in {"SpringGulpConverter", "SpringViteConverter"} ->
            "warned"
      [] kind # "ok" /\ conv \in {"DjangoGulpConverter", "DjangoViteConverter"} ->
            "raised"
      [] kind # "ok" /\ conv \in {"PHPGulpConverter", "PHPViteConverter"} ->
            IF kind = "unreadable" THEN "skipped" ELSE "errored"
      [] OTHER -> IF kind = "unreadable" THEN "skipped" ELSE "raised"

\* the log lines of an iteration that reaches the next file
FileLines(outcome) ==
    CASE outcome = "warned" -> <<"warning">>
      [] outcome = "errored" -> <<"error">>
      [] OTHER -> <<>>

\* the arguments of the command line
CliFrameworks ==
    { <<>>, <<"l", "a", "r", "a", "v", "e", "l">>, <<"L", "a", "r", "a", "v", "e", "l">>, <<"p", "h", "p">>, <<"P", "H", "P">>, <<"d", "j", "a", "n", "g", "o">>, <<"s", "p", "r", "i", "n", "g">>, <<"n", "o", "d", "e">>,
      <<"b", "l", "a", "z", "o", "r">>, <<"r", "a", "i", "l", "s">> }

CliPipelines == { <<>>, <<"v", "i", "t", "e">>, <<"V", "i", "t", "e">>, <<"g", "u", "l", "p">>, <<"w", "e", "b", "p", "a", "c", "k">> }

\* a page that converts, one that cannot be read or decoded as UTF-8, and
\* one whose converted text cannot be written back
FileKinds == {"ok", "unreadable", "unwritable"}

FileRuns == UNION {[1..n -> FileKinds] : n \in 1..MaxFiles}

\* main 69-74: the arguments are parsed
ParseArgs ==
    /\ pc = "main"
    /\ \E f \in CliFrameworks, p \in CliPipelines, o \in BOOLEAN :
          cli_args' = [framework |-> f, frontend_pipeline |-> p, others |-> o]
    /\ pc' = "parsed"
    /\ UNCHANGED folder_vars
    /\ UNCHANGED <<project_config, converter, steps, all_files, handled,
                   exit_code, log>>
    /\ UNCHANGED <<restructure_vars, rewrite_vars>>

\* main 76-81 with process_cli_config: a configuration error is logged and
\* main returns 1; a framework without a branch ends in an uncaught
\* TypeError, which ends the process with status 1
CliConfig ==
    /\ pc = "parsed"
    /\ is_cli_mode(cli_args)
    /\ \E exists \in BOOLEAN :
          LET outcome == ProcessCliConfig(cli_args, exists)
          IN  CASE outcome = "ValueError" ->
                       /\ log' = Append(log, "error")
                       /\ exit_code' = 1
                       /\ pc' = "exited"
                       /\ UNCHANGED project_config
                [] outcome = "TypeError" ->
                       /\ exit_code' = 1
                       /\ pc' = "exited"
                       /\ UNCHANGED <<project_config, log>>
                [] outcome = "config" ->
                       /\ project_config' =
                             [ framework |-> StrLower(cli_args.framework)
                             , frontend_pipeline |-> StrLower(cli_args.frontend_pipeline) ]
                       /\ pc' = "configured"
                       /\ UNCHANGED <<exit_code, log>>
    /\ UNCHANGED folder_vars
    /\ UNCHANGED <<cli_args, converter, steps, all_files, handled>>
    /\ UNCHANGED <<restructure_vars, rewrite_vars>>

\* main 83-87 with ask_project_config: the answers are one of the listed
\* choices; the pipeline is asked unless the framework is Vite-only
AskConfig ==
    /\ pc = "parsed"
    /\ ~is_cli_mode(cli_args)
    /\ \E f \in 1..Len(SUPPORTED_FRAMEWORKS), p \in 1..Len(SUPPORTED_PIPELINES) :
          LET framework == SUPPORTED_FRAMEWORKS[f]
              frontend_pipeline ==
                  IF ~InList(framework, VITE_ONLY) THEN SUPPORTED_PIPELINES[p]
                  ELSE <<"V", "i", "t", "e">>
          IN  /\ StrLower(framework) \in RunFrameworks
              /\ project_config' =
                    [ framework |-> StrLower(framework)
                    , frontend_pipeline |-> StrLower(frontend_pipeline) ]
    /\ pc' = "configured"
    /\ UNCHANGED folder_vars
    /\ UNCHANGED <<cli_args, converter, steps, all_files, handled, exit_code, log>>
    /\ UNCHANGED <<restructure_vars, rewrite_vars>>

\* prompts.py 58-63: a prompt is cancelled, safe_ask logs and calls exit(0)
AskCancelled ==
    /\ pc = "parsed"
    /\ ~is_cli_mode(cli_args)
    /\ log' = Append(log, "error")
    /\ exit_code' = 0
    /\ pc' = "exited"
    /\ UNCHANGED folder_vars
    /\ UNCHANGED <<cli_args, project_config, converter, steps, all_files, handled>>
    /\ UNCHANGED <<restructure_vars, rewrite_vars>>

\* prompts.py 160-162 and main 85-87: the project folder exists,
\* ask_project_config logs and returns None, main returns 1
AskExists ==
    /\ pc = "parsed"
    /\ ~is_cli_mode(cli_args)
    /\ log' = Append(log, "error")
    /\ exit_code' = 1
    /\ pc' = "exited"
    /\ UNCHANGED folder_vars
    /\ UNCHANGED <<cli_args, project_config, converter, steps, all_files, handled>>
    /\ UNCHANGED <<restructure_vars, rewrite_vars>>

\* main 110-144: the constructor of the framework's converter is called; it
\* finds the pages of the project
Construct ==
    /\ pc = "configured"
    /\ project_config.framework \in RunFrameworks
    /\ converter' = ConverterOf(project_config)
    /\ IF converter' = "none"
       THEN /\ exit_code' = 0
            /\ pc' = "exited"
            /\ UNCHANGED all_files
       ELSE /\ all_files' \in FileRuns
            /\ pc' = IF Scaffolds(converter') THEN "scaffold" ELSE "pages"
            /\ UNCHANGED exit_code
    /\ UNCHANGED folder_vars
    /\ UNCHANGED <<cli_args, project_config, steps, handled, log>>
    /\ UNCHANGED <<restructure_vars, rewrite_vars>>

\* the child process or the template generator succeeds
ScaffoldDone ==
    /\ pc = "scaffold"
    /\ steps' = Append(steps, "scaffold")
    /\ pc' = "pages"
    /\ UNCHANGED folder_vars
    /\ UNCHANGED <<cli_args, project_config, converter, all_files, handled,
                   exit_code, log>>
    /\ UNCHANGED <<restructure_vars, rewrite_vars>>

\* the child process or the template generator fails: the except clause
\* logs and returns, the rest of create_project runs and main returns 0; a
\* failure the clause does not name reaches main 144-147
ScaffoldFails ==
    /\ pc = "scaffold"
    /\ \E failure \in {"CalledProcessError", "OSError"} :
          IF ScaffoldCatches(converter, failure)
          THEN /\ steps' = steps \o <<"scaffold failed">> \o AfterFailedScaffold(converter)
               /\ exit_code' = 0
          ELSE /\ steps' = Append(steps, "scaffold failed")
               /\ exit_code' = 1
    /\ log' = Append(log, "error")
    /\ pc' = "exited"
    /\ UNCHANGED folder_vars
    /\ UNCHANGED <<cli_args, project_config, converter, all_files, handled>>
    /\ UNCHANGED <<restructure_vars, rewrite_vars>>

\* the pages are copied or restructured into the project
CopyPages ==
    /\ pc = "pages"
    /\ steps' = steps \o StepsBefore(converter)
    /\ pc' = "convert"
    /\ UNCHANGED folder_vars
    /\ UNCHANGED <<cli_args, project_config, converter, all_files, handled,
                   exit_code, log>>
    /\ UNCHANGED <<restructure_vars, rewrite_vars>>

\* one iteration of the loop of _convert that reaches the next file
ConvertFile ==
    /\ pc = "convert"
    /\ Len(handled) < Len(all_files)
    /\ LET kind == all_files[Len(handled) + 1]
           outcome == FileOutcome(converter, kind)
       IN  /\ outcome # "raised"
           /\ handled' =
                 Append(handled,
                        [ kind  |-> kind
                        , lines |-> FileLines(outcome) ])
           /\ log' = log \o FileLines(outcome)
    /\ UNCHANGED folder_vars
    /\ UNCHANGED <<cli_args, project_config, converter, steps, all_files,
                   exit_code, pc>>
    /\ UNCHANGED <<restructure_vars, rewrite_vars>>

\* one iteration whose exception leaves _convert and create_project: main
\* 145-148 logs it and returns 1
ConvertRaises ==
    /\ pc = "convert"
    /\ Len(handled) < Len(all_files)
    /\ LET kind == all_files[Len(handled) + 1]
       IN  /\ FileOutcome(converter, kind) = "raised"
           /\ handled' = Append(handled, [kind |-> kind, lines |-> <<"error">>])
    /\ log' = Append(log, "error")
    /\ exit_code' = 1
    /\ pc' = "exited"
    /\ UNCHANGED folder_vars
    /\ UNCHANGED <<cli_args, project_config, converter, steps, all_files>>
    /\ UNCHANGED <<restructure_vars, rewrite_vars>>

\* the loop of _convert is left, the remaining steps run and main returns 0
FinishProject ==
    /\ pc = "convert"
    /\ Len(handled) = Len(all_files)
    /\ steps' = steps \o <<"convert">> \o StepsAfter(converter)
    /\ exit_code' = 0
    /\ pc' = "exited"
    /\ UNCHANGED folder_vars
    /\ UNCHANGED <<cli_args, project_config, converter, all_files, handled, log>>
    /\ UNCHANGED <<restructure_vars, rewrite_vars>>

InitRun ==
    /\ NoFolders
    /\ Idle
    /\ NoRewrite
    /\ log = <<>>
    /\ NoRun
    /\ pc = "main"

NextRun ==
    \/ ParseArgs
    \/ CliConfig
    \/ AskConfig
    \/ AskCancelled
    \/ AskExists
    \/ Construct
    \/ ScaffoldDone
    \/ ScaffoldFails
    \/ CopyPages
    \/ ConvertFile
    \/ ConvertRaises
    \/ FinishProject

SpecRun == InitRun /\ [][NextRun]_vars

----------------------------------------------------------------------------
(* transpilex/frameworks/mvc.py, ror.py: _normalize_partials_folder *)

\* words the partials are named after
MaxPartialWords == 2

PartialWords == <<<<"n", "a", "v">>, <<"t", "o", "p">>, <<"f", "o", "o", "t">>>>

\* the files a partials folder can hold before it is normalized: a partial
\* moved from the source tree and the underscored partial of the scaffold
PartialNames ==
    UNION { { PartialWords[w] \o Ext_cshtml, <<"_">> \o PartialWords[w] \o Ext_cshtml }
            : w \in 1..MaxPartialWords }

\* the orders in which rglob can yield the files of a folder
Orders(names) ==
    {o \in [1..Cardinality(names) -> names] :
        \A a, b \in 1..Cardinality(names) : a # b => o[a] # o[b]}

\* f"_{name}{suffix}" with name = p.stem and suffix = p.suffix
TargetName(name) ==
    <<"_">> \o SplitExt(name)[1] \o SplitExt(name)[2]

\* list(rglob(...)): the snapshot of the folder, in the order of the walk
ListPartials ==
    /\ pc = "partials"
    /\ listing' \in Orders(partials_dir)
    /\ pc' = "normalize"
    /\ UNCHANGED <<visited, partials_dir, log>>
    /\ UNCHANGED restructure_vars
    /\ UNCHANGED rewrite_vars
    /\ UNCHANGED run_vars

\* one pass of the loop: the file is skipped, deleted as a duplicate of its
\* existing target, left alone when it is its own target, or renamed
NormalizePartial ==
    /\ pc = "normalize"
    /\ LET p == Head(listing)
           target_name == TargetName(p)
       IN  partials_dir' =
              IF p \notin partials_dir THEN partials_dir
              ELSE IF target_name \in partials_dir /\ p # target_name
              THEN partials_dir \ {p}
              ELSE IF p = target_name THEN partials_dir
              ELSE (partials_dir \ {p}) \cup {target_name}
    /\ listing' = Tail(listing)
    /\ pc' = IF Tail(listing) = <<>> THEN "normalized" ELSE "normalize"
    /\ UNCHANGED <<visited, log>>
    /\ UNCHANGED restructure_vars
    /\ UNCHANGED rewrite_vars
    /\ UNCHANGED run_vars

\* unlink or rename raises: the error is logged and the file stays
NormalizeFails ==
    /\ pc = "normalize"
    /\ Head(listing) \in partials_dir
    /\ log' = Append(log, "error")
    /\ listing' = Tail(listing)
    /\ pc' = IF Tail(listing) = <<>> THEN "normalized" ELSE "normalize"
    /\ UNCHANGED <<visited, partials_dir>>
    /\ UNCHANGED restructure_vars
    /\ UNCHANGED rewrite_vars
    /\ UNCHANGED run_vars

InitPartials ==
    /\ Idle
    /\ NoRewrite
    /\ NoRun
    /\ visited = {}
    /\ partials_dir \in (SUBSET PartialNames) \ {{}}
    /\ listing = <<>>
    /\ log = <<>>
    /\ pc = "partials"

NextPartials ==
    \/ ListPartials
    \/ NormalizePartial
    \/ NormalizeFails

SpecPartials == InitPartials /\ [][NextPartials]_vars

----------------------------------------------------------------------------
(* restructure_and_copy_files over a pages tree, and the steps of the      *)
(* emitters that follow it                                                  *)

\* pages of a source tree
MaxPages == 2

T_empty == <<"e", "m", "p", "t", "y">>

\* names of the pages: a plain word, words under a nesting and under a
\* no-nest keyword, a name reserved in C#, and an index page
PageNames ==
    { T_cover \o HtmlExt
    , T_apps \o Hyphen \o T_cover \o HtmlExt
    , T_ui \o Hyphen \o T_cover \o HtmlExt
    , T_apps \o Hyphen \o T_empty \o HtmlExt
    , T_apps \o Hyphen \o T_index \o HtmlExt }

\* the directories of the pages below config.pages_path
PageDirs == {<<>>, << <<"p">> >>, <<T_apps>>}

PageSources == {[parent |-> d, name |-> n] : d \in PageDirs, n \in PageNames}

\* project_root_path / "Views" of the .NET emitters
Dest_pascal == <<Slash, <<"W">>, <<"V">>>>

\* laravel.py 54-58, core.py 61-66, mvc.py 61-66, ror.py 67-72: the
\* arguments of each emitter's call
PageEmitters ==
    { [emitter |-> "laravel", case_style |-> "kebab",  extension |-> Ext_blade,  dest_path |-> Dest_plain]
    , [emitter |-> "core",    case_style |-> "pascal", extension |-> Ext_cshtml, dest_path |-> Dest_pascal]
    , [emitter |-> "mvc",     case_style |-> "pascal", extension |-> Ext_cshtml, dest_path |-> Dest_pascal]
    , [emitter |-> "ror",     case_style |-> "snake",  extension |-> Ext_erb,    dest_path |-> Dest_plain] }

\* restructure.py 154-184: one iteration of the rglob loop, the copy succeeds
RestructurePage ==
    /\ pc = "pages"
    /\ Cardinality(visited) < MaxPages
    /\ \E src \in PageSources \ visited :
       \E path \in RestructuredPaths(src.name, src.parent, dest_path) :
          LET file == DestFile(path, case_style, extension)
          IN  /\ visited' = visited \cup {src}
              /\ src_parent' = src_root \o src.parent
              /\ src_file' = src
              /\ restructured' = path
              /\ dest_file' = file
              /\ copied' = copied \cup {file}
              /\ route_map' = (src.name :> RoutePath(file, dest_path)) @@ route_map
    /\ UNCHANGED <<case_style, extension, dest_path, src_root, parts,
                   folder_parts, file_parts, i, stop_at_no_nest,
                   nesting_stopped, iterations>>
    /\ UNCHANGED <<partials_dir, listing, log, pc>>
    /\ UNCHANGED rewrite_vars
    /\ UNCHANGED run_vars

\* restructure.py 165-167 and 186-187: mkdir or copy2 raises in an iteration
RestructurePageFails ==
    /\ pc = "pages"
    /\ Cardinality(visited) < MaxPages
    /\ \E src \in PageSources \ visited :
       \E path \in RestructuredPaths(src.name, src.parent, dest_path) :
          /\ visited' = visited \cup {src}
          /\ src_parent' = src_root \o src.parent
          /\ src_file' = src
          /\ restructured' = path
          /\ dest_file' = DestFile(path, case_style, extension)
    /\ log' = Append(log, "error")
    /\ UNCHANGED <<case_style, extension, dest_path, src_root, parts,
                   folder_parts, file_parts, i, stop_at_no_nest,
                   nesting_stopped, iterations, copied, route_map>>
    /\ UNCHANGED <<partials_dir, listing, pc>>
    /\ UNCHANGED rewrite_vars
    /\ UNCHANGED run_vars

\* restructure.py 189-190: rglob is exhausted, the route map is returned
ReturnRouteMap ==
    /\ pc = "pages"
    /\ log' = Append(log, "info")
    /\ pc' = "returned"
    /\ UNCHANGED restructure_vars
    /\ UNCHANGED folder_vars
    /\ UNCHANGED rewrite_vars
    /\ UNCHANGED run_vars

\* mvc.py 68: the ignore_list of _create_controllers
IgnoreList ==
    {<<"S", "h", "a", "r", "e", "d">>, <<"_", "V", "i", "e", "w", "I", "m", "p", "o", "r", "t", "s", ".", "c", "s", "h", "t", "m", "l">>, <<"_", "V", "i", "e", "w", "S", "t", "a", "r", "t", ".", "c", "s", "h", "t", "m", "l">>, <<"I", "n", "d", "e", "x", ".", "c", "s", "h", "t", "m", "l">>}

IsAlnum(c) == c \in Digits \/ c \in DOMAIN UpperToLower \/ c \in DOMAIN LowerToUpper

\* mvc.py 441-443: the alphanumeric runs, each with its first character in
\* upper case, joined
ToPascal(s) ==
    LET kept == {k \in 1..Len(s) : IsAlnum(s[k])}
        nth(n) == CHOOSE k \in kept : Cardinality({j \in kept : j < k}) = n - 1
    IN  [n \in 1..Cardinality(kept) |->
            LET k == nth(n)
            IN  IF k = 1 \/ ~IsAlnum(s[k - 1]) THEN UpperChar(s[k]) ELSE s[k]]

ReservedNames == {<<"e", "m", "p", "t", "y">>, <<"c", "l", "a", "s", "s">>, <<"n", "a", "m", "e", "s", "p", "a", "c", "e">>, <<"c", "o", "n", "t", "r", "o", "l", "l", "e", "r">>, <<"v", "i", "e", "w">>}

\* mvc.py 445-461
MakeActionName(folder_name, file_stem) ==
    LET needs_prefix == \/ (file_stem # <<>> /\ file_stem[1] \in Digits)
                        \/ StrLower(file_stem) \in ReservedNames
        base == IF needs_prefix THEN folder_name \o file_stem ELSE file_stem
        pascal == ToPascal(base)
    IN  IF pascal = <<>> \/ pascal[1] \notin (DOMAIN UpperToLower \cup DOMAIN LowerToUpper)
        THEN ToPascal(folder_name) \o pascal
        ELSE pascal

\* the directory of a file, and whether it lies in the tree below a directory
DirOf(file) == SubSeq(file, 1, Len(file) - 1)

\* mvc.py 404-410: the files under project_views_path that the walk does not
\* skip
ViewFiles(views_path, written, ext) ==
    {f \in written :
        /\ IsRelativeTo(f, views_path)
        /\ \A ig \in IgnoreList : FindFirst(AsPosix(DirOf(f)), ig) = 0
        /\ f[Len(f)] \notin IgnoreList
        /\ EndsWith(f[Len(f)], ext)}

\* os.walk, top-down: the files of a directory come before those of its
\* sub-directories and each sub-tree is walked as a whole
WalkOrders(views) ==
    {o \in Orders(views) :
        \A a, b \in 1..Cardinality(views) :
            a < b =>
                /\ IsRelativeTo(DirOf(o[a]), DirOf(o[b])) => DirOf(o[a]) = DirOf(o[b])
                /\ \A c \in 1..Cardinality(views) :
                      \A d \in 1..Len(DirOf(o[a])) :
                          LET tree == SubSeq(DirOf(o[a]), 1, d)
                          IN  (b < c /\ IsRelativeTo(o[c], tree)) => IsRelativeTo(o[b], tree)}

UpdateRoutes_AnyDepth(routes, view_stem, action_name) ==
    [key \in DOMAIN routes |->
        LET segs == SelectSeq(StrSplit(routes[key], "/"), LAMBDA p : p # <<>>)
        IN  IF Len(segs) >= 1 /\ StrLower(segs[Len(segs)]) = StrLower(view_stem)
            THEN Slash \o StrJoin(SubSeq(segs, 1, Len(segs) - 1) \o <<action_name>>, Slash)
            ELSE routes[key]]

\* mvc.py 423-429: the routes whose last segment is the view's stem get the
\* action name as last segment
UpdateRoutes(routes, view_stem, action_name) ==
    [key \in DOMAIN routes |->
        LET segs == SelectSeq(StrSplit(routes[key], "/"), LAMBDA p : p # <<>>)
        IN  IF Len(segs) >= 2 /\ StrLower(segs[Len(segs)]) = StrLower(view_stem)
            THEN Slash \o StrJoin(SubSeq(segs, 1, Len(segs) - 1) \o <<action_name>>, Slash)
            ELSE routes[key]]

\* mvc.py 403-429 over the files in the order of the walk
RECURSIVE WalkViews(_, _)
WalkViews(order, routes) ==
    IF order = <<>> THEN routes
    ELSE LET file == Head(order)
             folder_name == file[Len(file) - 1]
             view_stem == SplitExt(file[Len(file)])[1]
         IN  WalkViews(Tail(order),
                       UpdateRoutes(routes, view_stem,
                                    MakeActionName(folder_name, view_stem)))

\* mvc.py 68: _create_controllers after the copy
CreateControllers ==
    /\ pc = "returned"
    /\ emitter = "mvc"
    /\ \E order \in WalkOrders(ViewFiles(dest_path, copied, extension)) :
          route_map' = WalkViews(order, route_map)
    /\ pc' = "controllers"
    /\ UNCHANGED <<case_style, extension, dest_path, src_root, src_parent,
                   src_file, parts, folder_parts, file_parts, i,
                   stop_at_no_nest, nesting_stopped, iterations, restructured,
                   dest_file, copied>>
    /\ UNCHANGED <<folder_vars, log>>
    /\ UNCHANGED rewrite_vars
    /\ UNCHANGED run_vars

\* laravel.py 60, core.py 68, mvc.py 70, ror.py 77: _convert and the steps
\* after it look routes up in the map
ConvertPages ==
    /\ \/ pc = "returned" /\ emitter # "mvc"
       \/ pc = "controllers"
    /\ pc' = "converted"
    /\ UNCHANGED restructure_vars
    /\ UNCHANGED <<folder_vars, log>>
    /\ UNCHANGED rewrite_vars
    /\ UNCHANGED run_vars

InitPages ==
    /\ \E call \in PageEmitters :
          /\ emitter = call.emitter
          /\ case_style = call.case_style
          /\ extension = call.extension
          /\ dest_path = call.dest_path
    /\ src_root = PagesPath
    /\ src_parent = <<>>
    /\ src_file = NoFile
    /\ parts = <<>>
    /\ folder_parts = <<>>
    /\ file_parts = <<>>
    /\ i = 0
    /\ stop_at_no_nest = FALSE
    /\ nesting_stopped = FALSE
    /\ iterations = 0
    /\ restructured = <<>>
    /\ dest_file = <<>>
    /\ copied = {}
    /\ route_map = <<>>
    /\ params_raw = <<>>
    /\ raw = <<>>
    /\ params = <<>>
    /\ params_type = "dict"
    /\ page = <<>>
    /\ content = <<>>
    /\ fragments = <<>>
    /\ frag_done = 0
    /\ NoRun
    /\ NoFolders
    /\ log = <<>>
    /\ pc = "pages"

NextPages ==
    \/ RestructurePage
    \/ RestructurePageFails
    \/ ReturnRouteMap
    \/ CreateControllers
    \/ ConvertPages

SpecPages == InitPages /\ [][NextPages]_vars

----------------------------------------------------------------------------
(* Properties of the path restructurer and of the route map *)

Last(s) == s[Len(s)]

\* the stem of the current source file and its hyphen-separated tokens
Stem == SplitExt(src_file.name)[1]
StemTokens == StrSplit(Stem, "-")

\* the keywords that open the stem at a token boundary
LeadingKeywords(stem) ==
    {fw \in FOLDERS : stem = fw \/ StartsWith(stem, fw \o Hyphen)}

\* what follows a leading keyword and its hyphen
AfterKeyword(stem, fw) == Drop(stem, Len(fw) + 2)

NoKeywordToken(rest) ==
    LET toks == StrSplit(rest, "-")
    IN  \A k \in 1..Len(toks) : toks[k] \notin FOLDERS

\* K1-K2-rest.html lies under dest_root / parent / K1 / K2 as rest.html, for
\* the keywords K1, K2 drawn from `keywords`
TwoFoldersFor(keywords) ==
    pc = "built" =>
        \A K1 \in LeadingKeywords(Stem) \cap keywords :
            \A K2 \in LeadingKeywords(AfterKeyword(Stem, K1)) \cap keywords :
                LET rest == AfterKeyword(AfterKeyword(Stem, K1), K2)
                IN  (Len(rest) > 0 /\ NoKeywordToken(rest)) =>
                        /\ folder_parts = <<K1, K2>>
                        /\ restructured =
                              dest_path \o src_file.parent \o <<K1, K2, rest \o HtmlExt>>

\* C1 as stated: for any keywords K1, K2 of FOLDERS and a rest without
\* keyword token, K1-K2-rest.html is placed under exactly [K1, K2] as rest.html
C1_AnyKeywords == TwoFoldersFor(FOLDERS)

\* C1 amended: for keywords K1, K2 of FOLDERS that are not in
\* NO_NESTING_FOLDERS and a rest without keyword token, K1-K2-rest.html is
\* placed under exactly the folder segments [K1, K2] with filename rest.html
C1_NestingKeywords == TwoFoldersFor(FOLDERS \ NO_NESTING_FOLDERS)

C1_Witness ==
    /\ pc = "built"
    /\ Stem = T_apps \o Hyphen \o T_hr \o Hyphen \o T_cover
    /\ folder_parts = <<T_apps, T_hr>>
    /\ Last(restructured) = T_cover \o HtmlExt

\* the keyword matched first at the start of the stem: the leading keyword
\* with the most tokens
LongestLeading(stem) ==
    CHOOSE fw \in LeadingKeywords(stem) :
        \A other \in LeadingKeywords(stem) : Len(fw) >= Len(other)

\* C2: when the first keyword match is a no-nest keyword followed by further
\* tokens, the path has exactly one folder level, that keyword, and the
\* filename is all remaining tokens joined by '-', keywords or not
C2_NoNestOneLevel ==
    (pc = "built" /\ LeadingKeywords(Stem) # {}) =>
        LET fw == LongestLeading(Stem)
        IN  (fw \in NO_NESTING_FOLDERS /\ Stem # fw) =>
                /\ folder_parts = <<fw>>
                /\ RelativeTo(restructured, dest_path)
                      = <<fw, AfterKeyword(Stem, fw) \o HtmlExt>>

C2_Witness ==
    /\ pc = "built"
    /\ Stem = T_auth \o Hyphen \o T_cover \o Hyphen \o T_apps
    /\ RelativeTo(restructured, dest_path)
          = <<T_auth \o Hyphen \o T_cover, T_apps \o HtmlExt>>

\* C3: the returned path is dest_root / existing parent / every accumulated
\* folder segment / final filename, nothing dropped
C3_NothingDropped ==
    pc = "built" =>
        restructured =
            dest_path \o src_file.parent \o folder_parts \o <<Last(restructured)>>

\* the number of stem tokens taken up by the folder segments
RECURSIVE FolderTokenCount(_)
FolderTokenCount(folders) ==
    IF folders = <<>> THEN 0
    ELSE Len(StrSplit(folders[1], "-")) + FolderTokenCount(Tail(folders))

\* C4: the last token of the stem is never part of a folder segment, it is
\* the last token of the final filename, whose stem is never empty
C4_LastTokenInFile ==
    pc = "built" =>
        LET file_stem == SplitExt(Last(restructured))[1]
            file_toks == StrSplit(file_stem, "-")
        IN  /\ FolderTokenCount(folder_parts) < Len(StemTokens)
            /\ Last(file_toks) = Last(StemTokens)
            /\ file_stem # <<>>

\* the last two tokens form the keyword auth-cover, which reaches the end of
\* the stem and stays in the filename
C4_Witness ==
    /\ pc = "built"
    /\ Stem = T_apps \o Hyphen \o T_auth \o Hyphen \o T_cover
    /\ folder_parts = <<T_apps>>
    /\ Last(restructured) = T_auth \o Hyphen \o T_cover \o HtmlExt

\* C5 as stated: a stem composed purely of keyword tokens yields zero folder
\* segments and the full stem as filename
C5_AllKeywordTokens ==
    (pc = "built" /\ \A k \in 1..Len(StemTokens) : StemTokens[k] \in FOLDERS) =>
        /\ folder_parts = <<>>
        /\ restructured = dest_path \o src_file.parent \o <<src_file.name>>

\* C5 amended: a stem that is exactly one keyword of FOLDERS (of one or of
\* two tokens) yields zero folder segments and the full stem plus extension
\* as filename
C5_SingleKeyword ==
    (pc = "built" /\ Stem \in FOLDERS) =>
        /\ folder_parts = <<>>
        /\ restructured = dest_path \o src_file.parent \o <<src_file.name>>

C5_Witness ==
    /\ pc = "built"
    /\ Stem = T_auth \o Hyphen \o T_cover
    /\ Stem \in FOLDERS
    /\ restructured = dest_path \o src_file.parent \o <<src_file.name>>

\* '/' followed by the kebab-cased segments of a relative path, the last
\* one without its extension
KebabRoute(rel) ==
    LET segs == [k \in 1..Len(rel) |->
                    apply_casing(IF k = Len(rel) THEN SplitExt(rel[k])[1] ELSE rel[k],
                                 "kebab")]
    IN  Slash \o StrJoin(segs, Slash)

Stored == pc = "done" /\ src_file.name \in DOMAIN route_map

\* C6: the route stored for a copied non-index file directly under the pages
\* root is '/' followed by the kebab-cased folder segments and filename stem
\* of its restructured path joined by '/'
C6_RouteIsKebabPath ==
    (Stored /\ src_file.parent = <<>>
            /\ SplitExt(Last(restructured))[1] # T_index) =>
        route_map[src_file.name] = KebabRoute(RelativeTo(restructured, dest_path))

C8_RouteIgnoresCaseStyle ==
    Stored =>
        \A style \in {"kebab", "pascal", "snake"} :
            route_map[src_file.name]
                = RoutePath(DestFile(restructured, style, extension), dest_path)

----------------------------------------------------------------------------
(* Properties of the include rewriting and of the parameter parsers *)

TitleSegments == {<<"t", "i", "t", "l", "e", "-", "m", "e", "t", "a">>, <<"a", "p", "p", "-", "m", "e", "t", "a", "-", "t", "i", "t", "l", "e">>}

\* the normalized path of the directive ends in title-meta or app-meta-title
EndsInTitleSegment(path) == PathName(NormalizedPath(path)) \in TitleSegments

IsTitleDirective(piece) ==
    IsDirective(piece) /\ EndsInTitleSegment(DirectiveOf(piece).path)

\* C9: after the include rewriting of any emitter, every directive of the
\* page whose normalized path ends in title-meta or app-meta-title has been
\* replaced by the empty string: neither the directive nor a partial call
\* generated from it is in the output
C9_TitleIncludesStripped ==
    pc = "rewritten" =>
        \A k \in 1..Len(page) : IsTitleDirective(page[k]) => content[k] = <<>>

\* the blob contains array syntax: array(...) or a quoted key followed by =>
HasArraySyntax(text) ==
    \/ Matched(SearchFrom(RX_PhpArray, text, 1))
    \/ Matched(SearchFrom(RX_KeyArrow, text, 1))

\* C10: the parser of Laravel and Symfony returns a blob that is a valid
\* brace-delimited JSON object as its parsed JSON, whatever => pairs or
\* key="value" text it contains, and never hands a blob with array syntax
\* to the key=value grammar
C10_FirstGrammarWins ==
    (pc = "returned" /\ emitter \in BladeParsers) =>
        LET text == HtmlUnescape(StrStrip(params_raw))
            json == JsonLoads(text)
            kv   == KeyValuePairs(FindIter(RX_KeyValue, text), text, EmptyDict)
        IN  /\ (LooksLikeObject(text) /\ json.ok) => params = json.value.v
            /\ (HasArraySyntax(text) /\ kv # EmptyDict) => params # kv

\* the blob is brace-delimited and the emitter's object grammar rejects it:
\* json.loads raises JSONDecodeError, or ast.literal_eval raises
ObjectRejected(em, text) ==
    /\ LooksLikeObject(text)
    /\ IF em \in LiteralParsers
       THEN ~LiteralEval(PythonLiteralText(text)).ok
       ELSE ~JsonLoads(NormalizeJson(text)).ok

\* C11: in every emitter's parser a brace-delimited blob that fails the JSON
\* grammar is not answered with the empty mapping at that point: it falls
\* through to the later grammars, so the key="value" pairs it contains are
\* still returned
C11_JsonFailureFallsThrough ==
    pc = "returned" =>
        LET text == Cleaned(emitter, params_raw)
            kv   == KeyValuePairs(FindIter(KeyValueGrammar(emitter), text), text, EmptyDict)
        IN  (ObjectRejected(emitter, text) /\ kv # EmptyDict) => params # EmptyDict

\* no grammar of the emitter's parser matches the blob
MatchesNoGrammar(em, text) ==
    /\ ~LooksLikeObject(text)
    /\ em \in BladeParsers => ~HasArraySyntax(text)
    /\ FindIter(KeyValueGrammar(em), text) = <<>>

\* C12: whatever the input (empty, blank, unbalanced braces, text of no
\* grammar), the parser returns a mapping, and the empty mapping for an
\* input that matches no grammar
C12_AlwaysAMapping ==
    pc = "returned" =>
        /\ params_type = "dict"
        /\ MatchesNoGrammar(emitter, Cleaned(emitter, params_raw)) => params = EmptyDict

\* the key and the literal value written in each pair of the JSON-like
\* object syntax
Written ==
    (Pair_json :> <<<<"a">>, PyStr(<<"x">>)>>)
    @@ (Pair_bare :> <<<<"t", "i", "t", "l", "e">>, PyStr(<<"H", "o", "m", "e">>)>>)
    @@ (Pair_bool :> <<<<"a", "c", "t", "i", "v", "e">>, PyBool(TRUE)>>)
    @@ (Pair_word :> <<<<"w">>, PyStr(<<"t", "r", "u", "e">>)>>)
    @@ (Pair_arrow_text :> <<<<"t">>, PyStr(<<"'", "m", "'", " ", "=", ">", " ", "'", "w", "'">>)>>)
    @@ (Pair_kv_text :> <<<<"u">>, PyStr(<<"e", "=", "'", "f", "'">>)>>)
    @@ (Pair_colon_text :> <<<<"s">>, PyStr(<<"a", ",", " ", "b", ":", " ", "c">>)>>)

\* the mapping a run of such pairs writes down
RECURSIVE WrittenMapping(_, _)
WrittenMapping(run, acc) ==
    IF run = <<>> THEN acc
    ELSE WrittenMapping(Tail(run), DictPut(acc, Written[Head(run)][1], Written[Head(run)][2]))

\* the object blobs: braces, with or without a trailing comma
ObjectDelimiters == {d \in ParamDelimiters : d[1] # <<>> /\ d[1][1] = "{"}

ObjectBlob(d, run) == d[1] \o StrJoin(run, <<",", " ">>) \o d[2]

\* C13: a JSON-like object blob, with unquoted keys or a trailing comma,
\* is returned as the mapping of each key to the literal value written:
\* strings character for character, bare true and false as booleans
C13_LiteralValuesKept ==
    pc = "returned" =>
        \A d \in ObjectDelimiters :
            \A run \in UNION {[1..n -> DOMAIN Written] : n \in 1..MaxPairs} :
                params_raw = ObjectBlob(d, run) =>
                    /\ params_type = "dict"
                    /\ params = WrittenMapping(run, EmptyDict)

\* C14: for every registered pattern and every directive, extraction gives
\* exactly one fragment, with the directive's path, whether the directive
\* is written {{> path}} or with its bracket escaped as {{&gt; path}}; in
\* the shared extract_fragments of the PHP emitter as in the emitters that
\* derive an alternate pattern
C14_EscapedFormExtracted ==
    pc = "collected" =>
        \A d \in IncludeDirectives :
            page = PageWith(d) =>
                /\ Len(fragments) = 1
                /\ fragments[1].path = d.path


----------------------------------------------------------------------------
(* The file outside the source root *)

\* the src_file argument lies outside src_root
Outside == ~IsRelativeTo(src_parent \o <<src_file.name>>, src_root)

\* C15: a file that does not lie under src_root gets a warning, and its
\* destination is the one of the bare filename: the name is the last part of
\* the file's path, no parent directory of it enters the result, and the
\* path returned is built from the filename's tokens alone.
C15_OutsideUsesFilename ==
    (pc = "built" /\ Outside) =>
        /\ log = <<"warning">>
        /\ src_file.parent = <<>>
        /\ parts = StrSplit(SplitExt(src_file.name)[1], "-")
        /\ restructured =
              ReturnedPath(dest_path, <<>>, folder_parts,
                           FinalFile(folder_parts, file_parts, src_file.name),
                           stop_at_no_nest)
        /\ Len(restructured) = Len(dest_path) + Len(folder_parts) + 1
              \/ stop_at_no_nest

C15_Witness ==
    /\ pc = "built"
    /\ Outside
    /\ Len(src_parent) > 2
    /\ folder_parts # <<>>
    /\ log = <<"warning">>


----------------------------------------------------------------------------
(* Properties of a run of main *)

\* a file of the loop failed
FileFailed == \E k \in 1..Len(handled) : handled[k].kind # "ok"

\* C16: when a file of the conversion loop fails (it cannot be read or
\* decoded, or its conversion raises an exception), the loop still visits every file of
\* the iteration and the run of the converter completes: at the end of the
\* run all files have been visited and the steps after the loop have run.
C16_BatchContinues ==
    (pc = "exited" /\ FileFailed) =>
        /\ Len(handled) = Len(all_files)
        /\ InList("convert", steps)
        /\ steps[Len(steps)] = StepsAfter(converter)[Len(StepsAfter(converter))]

\* C17: every file of the loop that failed has at least one warning or error
\* line logged for it; no failed file is passed over without a line.
C17_NoSilentSkip ==
    \A k \in 1..Len(handled) :
        handled[k].kind # "ok" =>
            \E n \in 1..Len(handled[k].lines) :
                handled[k].lines[n] \in {"warning", "error"}

\* C18: when the scaffolding of a converter fails, an error is logged and no
\* later step of that converter runs: the failed scaffolding is the only
\* step of the run.
C18_ScaffoldFailureAbandons ==
    InList("scaffold failed", steps) =>
        /\ InList("error", log)
        /\ steps = <<"scaffold failed">>

\* the converter ran all of create_project
Succeeded ==
    /\ converter # "none"
    /\ InList("convert", steps)
    /\ ~InList("scaffold failed", steps)

\* C19: the process ends with exit code 0 only when the conversion
\* succeeded, and with 1 otherwise: a failed scaffolding, an unrecognised
\* framework and a cancelled prompt never end with exit code 0.
C19_ExitCode ==
    pc = "exited" =>
        /\ exit_code \in {0, 1}
        /\ exit_code = 0 <=> Succeeded

\* list.lower() of every entry
LowerList(list) == [k \in 1..Len(list) |-> StrLower(list[k])]

\* all six arguments are given and the framework and pipeline do not go
\* together, whatever their letter case
InvalidCombination(args) ==
    LET framework == StrLower(args.framework)
        frontend_pipeline == StrLower(args.frontend_pipeline)
    IN  /\ args.framework # <<>>
        /\ args.frontend_pipeline # <<>>
        /\ args.others
        /\ \/ /\ InList(framework, LowerList(VITE_ONLY))
              /\ frontend_pipeline # <<"v", "i", "t", "e">>
           \/ /\ InList(framework, LowerList(SUPPORTED_FRAMEWORKS))
              /\ ~InList(frontend_pipeline, LowerList(SUPPORTED_PIPELINES))

\* C20: in non-interactive mode an invalid framework/pipeline combination is
\* a configuration error: no configuration is returned, no converter is
\* constructed and the process ends with exit code 1.
C20_InvalidCombinationFatal ==
    (pc # "parsed" /\ InvalidCombination(cli_args)) =>
        /\ project_config = NoConfig
        /\ converter = "none"
        /\ pc = "exited"
        /\ exit_code = 1

----------------------------------------------------------------------------
(* Properties of the tokenizer loop of _get_restructured_path *)

\* the text of the tokens from the cursor on
RestAt(ps, at) == StrJoin(Drop(ps, at + 1), Hyphen)

\* C22: at every cursor position where a keyword matches, the keyword with
\* the most tokens among those matching there is the one taken: the cursor
\* moves past all its tokens and, unless it ends the name, it is the folder
\* appended (auth-cover-x gives folder auth-cover, never auth)
C22_GreedyLongest ==
    [][ (pc = "scan" /\ ~nesting_stopped
            /\ LeadingKeywords(RestAt(parts, i)) # {})
        => LET fw == LongestLeading(RestAt(parts, i))
               n  == Len(StrSplit(fw, "-"))
           IN  /\ i' = i + n
               /\ IF i + n >= Len(parts)
                  THEN folder_parts' = folder_parts
                  ELSE folder_parts' = Append(folder_parts, fw) ]_vars

C22_Witness ==
    /\ pc = "exit"
    /\ parts = <<T_auth, T_cover, T_apps>>
    /\ i = 2
    /\ folder_parts = <<T_auth \o Hyphen \o T_cover>>
    /\ file_parts = <<T_apps>>

\* C23: once the token at the cursor opens no keyword, that token and every
\* later token become file parts and no folder is appended any more, keyword
\* or not; a name whose first token opens no keyword yields no folder
C23_NoFolderAfterWord ==
    /\ [][ (pc = "scan"
               /\ (nesting_stopped \/ LeadingKeywords(RestAt(parts, i)) = {}))
           => /\ nesting_stopped'
              /\ folder_parts' = folder_parts
              /\ file_parts' = Append(file_parts, parts[i + 1])
              /\ i' = i + 1 ]_vars
    /\ []((pc = "exit" /\ LeadingKeywords(RestAt(parts, 0)) = {})
             => (folder_parts = <<>> /\ file_parts = parts))

C23_Witness ==
    /\ pc = "exit"
    /\ parts = <<T_cover, T_apps, T_hr>>
    /\ folder_parts = <<>>
    /\ file_parts = <<T_cover, T_apps, T_hr>>

\* the tokens of the folder keywords, each split on '-'
FolderTokens(folders) ==
    IF folders = <<>> THEN <<>> ELSE StrSplit(StrJoin(folders, Hyphen), "-")

\* C28: when the scanning loop is left, the tokens of the accumulated folder
\* keywords followed by the accumulated file parts are exactly the tokens of
\* the stem, in their order: none lost, duplicated or moved
C28_TokensConserved ==
    pc = "exit" => FolderTokens(folder_parts) \o file_parts = parts

C28_Witness ==
    /\ pc = "exit"
    /\ parts = <<T_ui, T_apps, T_hr>>
    /\ folder_parts = <<T_ui>>
    /\ file_parts = <<T_apps, T_hr>>

\* the scanning loop keeps running once entered: _get_restructured_path is
\* sequential code without any wait
SpecLoop ==
    Init /\ [][Next]_vars
         /\ WF_vars(ScanStopped \/ ScanMatchLast \/ ScanMatchFolder \/ ScanNoMatch)

\* C29: every iteration of the scanning loop moves the cursor forward, the
\* loop never runs more iterations than the stem has tokens, and once
\* entered it is left
C29_LoopTerminates ==
    /\ [][ pc = "scan" => (i' > i /\ iterations' = iterations + 1) ]_vars
    /\ [](iterations <= Len(parts))
    /\ (pc = "scan" ~> pc = "exit")

C29_Witness ==
    /\ pc = "exit"
    /\ Len(parts) = MaxTokens
    /\ iterations = Len(parts)
    /\ i = Len(parts)
    /\ ~stop_at_no_nest

\* C30: the path returned for a file is the only path the function can
\* return for it, whatever the order in which the keywords of FOLDERS with
\* equal token count are tried
C30_OrderIndependent ==
    pc = "built" =>
        RestructuredPaths(src_file.name, src_file.parent, dest_path) = {restructured}

C30_Witness ==
    /\ pc = "built"
    /\ parts = <<T_hr, T_auth, T_cover>>
    /\ Cardinality(MatchesAt(parts, 1)) = 2
    /\ restructured = dest_path \o src_file.parent
                         \o <<T_hr, T_auth \o Hyphen \o T_cover \o HtmlExt>>

----------------------------------------------------------------------------
(* Properties of the case styling and of the copied files *)

\* C24: casing touches only the folders and the filename below the
\* destination root: the components of dest_path are left as given, so the
\* cased destination file lies under dest_path
C24_RootUntouched ==
    pc = "done" =>
        /\ Len(dest_file) > Len(dest_path)
        /\ SubSeq(dest_file, 1, Len(dest_path)) = dest_path

\* the text of a path component before its first dot
BeforeDot(part) ==
    LET dots == {k \in 1..Len(part) : part[k] = "."}
    IN  IF dots = {} THEN part
        ELSE SubSeq(part, 1, (CHOOSE k \in dots : \A d \in dots : k <= d) - 1)

\* C25: with case_style "snake" every folder and file stem below the
\* destination root is the snake_case form of the restructured component:
\* its words are joined by '_' and it holds no '-'
C25_SnakeForRails ==
    (pc = "done" /\ case_style = "snake") =>
        \A k \in (Len(dest_path) + 1)..Len(dest_file) :
            /\ BeforeDot(dest_file[k])
                  = apply_casing(BeforeDot(restructured[k]), "snake")
            /\ \A c \in 1..Len(dest_file[k]) : dest_file[k][c] # "-"

HasUnderscore(name) == name # <<>> /\ name[1] = "_"

\* C26: whatever the order of the walk, a pass over a partial without '_'
\* gives it exactly one (or removes it when its underscored counterpart is
\* there), a pass over a partial that starts with '_' leaves the folder as
\* it is, and after the walk every name starts with '_' and no name stands
\* next to its underscored counterpart
C26_PartialsNormalized ==
    /\ [][ (pc = "normalize" /\ log' = log)
           => LET p == Head(listing)
              IN  IF HasUnderscore(p)
                  THEN partials_dir' = partials_dir
                  ELSE partials_dir' = (partials_dir \ {p}) \cup {<<"_">> \o p} ]_vars
    /\ []((pc = "normalized" /\ log = <<>>)
            => \A name \in partials_dir :
                  /\ HasUnderscore(name)
                  /\ (<<"_">> \o name) \notin partials_dir)

----------------------------------------------------------------------------
(* Properties of the pages tree, the route map after its return, and the   *)
(* partials folder                                                          *)

\* the non-empty segments of a route
RouteSegments(route) == SelectSeq(StrSplit(route, "/"), LAMBDA p : p # <<>>)

\* restructure_and_copy_files has returned its route map
AfterReturn == pc \in {"returned", "controllers", "converted"}

\* C21 as stated: once restructure_and_copy_files has returned the route
\* map, no step of any emitter adds, removes or changes an entry of it
C21_RouteMapReadOnly ==
    [][ AfterReturn => route_map' = route_map ]_vars

\* C21 amended: once the route map is returned no step adds or removes a
\* key, and the only step that changes a value is _create_controllers of
\* the MVC emitter: in a route of at least two segments it replaces the last
\* segment by the action name of a written view whose stem is that segment
\* up to letter case (the stem itself, or the view's folder and the stem);
\* every other segment and every route of the other emitters stay as
\* computed at restructuring time
C21_OnlyActionNames ==
    [][ AfterReturn =>
          /\ DOMAIN route_map' = DOMAIN route_map
          /\ \A key \in DOMAIN route_map :
                \/ route_map'[key] = route_map[key]
                \/ LET old == RouteSegments(route_map[key])
                       new == RouteSegments(route_map'[key])
                   IN  /\ emitter = "mvc" /\ pc = "returned"
                       /\ Len(old) >= 2 /\ Len(new) = Len(old)
                       /\ SubSeq(new, 1, Len(new) - 1) = SubSeq(old, 1, Len(old) - 1)
                       /\ route_map'[key] = Slash \o StrJoin(new, Slash)
                       /\ \E view \in copied :
                             LET stem == SplitExt(view[Len(view)])[1]
                                 folder == view[Len(view) - 1]
                             IN  /\ StrLower(stem) = StrLower(old[Len(old)])
                                 /\ StrLower(new[Len(new)])
                                       \in {StrLower(stem), StrLower(folder \o stem)} ]_vars

C21_Witness ==
    /\ pc = "controllers"
    /\ emitter = "mvc"
    /\ T_apps \o Hyphen \o T_cover \o HtmlExt \in DOMAIN route_map
    /\ route_map[T_apps \o Hyphen \o T_cover \o HtmlExt] = <<"/", "a", "p", "p", "s", "/", "C", "o", "v", "e", "r">>
    /\ T_cover \o HtmlExt \in DOMAIN route_map
    /\ route_map[T_cover \o HtmlExt] = <<"/", "c", "o", "v", "e", "r">>

\* C27: no two source pages are given the same destination: a page that is
\* copied never lands on a destination an earlier page of the run was
\* copied to
C27_NoOverwrite ==
    [][ (pc = "pages" /\ visited' # visited /\ log' = log)
        => dest_file' \notin copied ]_vars

====
